---------------------------- MODULE Spec2Model ----------------------------
(***************************************************************************)
(* Model of the tag index search core of openGemini                        *)
(* (engine/index/tsi/search.go): the row scans over the sorted merge       *)
(* table, tag filters, the predicate evaluators and the series key         *)
(* enumeration.  Byte strings are sequences of naturals in 0..255; the     *)
(* merge table is the sorted sequence of its items.                        *)
(***************************************************************************)
EXTENDS Integers, Sequences, FiniteSets, TLC

VARIABLES
    series,        \* the indexed series: TSID -> [mst, tags, ver] (what the rows encode)
    tbl,           \* mergeset table: the sorted sequence of items (byte strings)
    tsFail,        \* 0, or the table position at which the cursor's reads start failing
    deletedTSIDs,  \* is.idx.getDeletedTSIDs(): the tombstone set
    versions,      \* is.idx.indexBuilder versions: measurement name -> current version
    pc,            \* "idle" (no query running) or "done" (a query has returned)
    ret,           \* the last query: its operation, its arguments and what it returned
    gs,            \* a GroupSeries: the sequence of its TagSetInfo objects
    setPool,       \* setPool: the TagSetInfo objects put back (indexes into gs)
    holders,       \* the components that retain a TagSetInfo: holder -> its position
    readCache,     \* the ReadCacheInstance: its current and its old buffer
    heap,          \* the CachePage objects and the byte slices behind them
    client,        \* what the user of the cache holds: a page handle and a byte slice
    compWorker,    \* the Compactor: its shards, the round it runs and what it invoked
    uuidGen,       \* metaclient.LogicClock, sequenceID and the callers of GenerateUUID
    spdyCfg        \* a config.Spdy and the number of times FormatSpdy ran on it

indexVars == <<series, tbl, tsFail, deletedTSIDs, versions, pc, ret>>
tagSetVars == <<gs, setPool, holders>>
cacheVars == <<readCache, heap, client>>
serviceVars == <<compWorker, uuidGen, spdyCfg>>
vars == <<indexVars, tagSetVars, cacheVars, serviceVars>>

(***************************************************************************)
(* Bounds of the model.                                                    *)
(***************************************************************************)
\* TSIDs are 1..MaxTSID
MaxTSID == 5
\* mergeindex.MaxTSIDsPerRow, scaled down: a row holds at most this many TSIDs
MaxTSIDsPerRow == 4
\* at most this many TSIDs are tombstoned
MaxDeleted == 1
\* measurement versions are 0..MaxVersion
MaxVersion == 2
\* a TagSetInfo holds at most MaxSeriesPerSet series, a GroupSeries MaxGroups groups
MaxSeriesPerSet == 3
MaxGroups == 2
\* at most MaxHolders components retain one TagSetInfo
MaxHolders == 3
\* the pages of a file are at the offsets 0..MaxOffset-1
MaxOffset == 2
\* the user of the read cache makes at most MaxCalls calls
MaxCalls == 5
\* the compactor has at most MaxShards shards and sees at most MaxTicks
\* refreshes of the cached timestamp
MaxShards == 2
MaxTicks == 2
\* the timestamps of the compactor are unsigned integers of WordBits bits
WordBits == 12
\* a byte has ByteBits bits
ByteBits == 1
\* MaxCallers callers of GenerateUUID generate at most MaxUUIDs IDs, and the
\* logic clock changes at most MaxClockChanges times
MaxCallers == 2
MaxUUIDs == 6
MaxClockChanges == 1
\* a configuration file gives at most MaxSettings settings of the Spdy, which
\* is formatted at most MaxFormats times
MaxSettings == 3
MaxFormats == 2
\* the channel of the TagSetInfo pool has PoolCacheSize elements; its
\* MaxUsers users allocate at most MaxObjects objects, append at most
\* MaxPooledSeries series to one and take at most MaxRefs references to it
PoolCacheSize == 1
MaxUsers == 2
MaxObjects == 3
MaxPooledSeries == 1
MaxRefs == 2

(***************************************************************************)
(* Byte strings.                                                           *)
(***************************************************************************)
\* bytes.HasPrefix
HasPrefix(s, p) == Len(p) <= Len(s) /\ SubSeq(s, 1, Len(p)) = p

\* bytes.IndexByte: the 0-based index of the first c in s, or -1
IndexByte(s, c) ==
    IF \E i \in 1..Len(s) : s[i] = c
    THEN (CHOOSE i \in 1..Len(s) : s[i] = c /\ \A j \in 1..(i-1) : s[j] # c) - 1
    ELSE -1

\* s[n:] of Go, n 0-based
From(s, n) == SubSeq(s, n + 1, Len(s))

\* bytes.Compare(a, b) < 0 from byte i on: the order of the items of the merge table
RECURSIVE LexLessFrom(_, _, _)
LexLessFrom(a, b, i) ==
    IF i > Len(a) THEN i <= Len(b)
    ELSE IF i > Len(b) THEN FALSE
    ELSE IF a[i] = b[i] THEN LexLessFrom(a, b, i + 1)
    ELSE a[i] < b[i]

LexLess(a, b) == LexLessFrom(a, b, 1)

LexLeq(a, b) == a = b \/ LexLess(a, b)

RECURSIVE Concat(_)
Concat(ss) == IF ss = <<>> THEN <<>> ELSE Head(ss) \o Concat(Tail(ss))

\* the elements of a finite set of naturals in ascending order
RECURSIVE SortedSeq(_)
SortedSeq(S) ==
    IF S = {} THEN <<>>
    ELSE LET m == CHOOSE x \in S : \A y \in S : x <= y
         IN <<m>> \o SortedSeq(S \ {m})

\* the items of a finite set of byte strings in bytes.Compare order
RECURSIVE SortItems(_)
SortItems(S) ==
    IF S = {} THEN <<>>
    ELSE LET m == CHOOSE x \in S : \A y \in S : LexLeq(x, y)
         IN <<m>> \o SortItems(S \ {m})

(***************************************************************************)
(* Key codec.                                                              *)
(***************************************************************************)
tagSeparatorChar == 1
nsPrefixKeyToTSID == 0
nsPrefixTSIDToKey == 1
nsPrefixTagToTSIDs == 2
\* the separator between the measurement and the tag key of a composite tag key
compositeSeparatorChar == 0
kvSeparatorChar == 2

\* encoding.MarshalUint64: 8 bytes, big endian (the TSIDs of the model are
\* below 2^24, so the five high bytes are 0)
MarshalUint64(t) ==
    [i \in 1..8 |-> IF i <= 5 THEN 0 ELSE (t \div (256 ^ (8 - i))) % 256]

\* encoding.UnmarshalUint64 of the first 8 bytes of b
UnmarshalUint64(b) ==
    ((((((b[1] * 256 + b[2]) * 256 + b[3]) * 256 + b[4]) * 256
        + b[5]) * 256 + b[6]) * 256 + b[7]) * 256 + b[8]

\* encoding.MarshalUint16 / UnmarshalUint16: 2 bytes, big endian
MarshalUint16(v) == <<(v \div 256) % 256, v % 256>>
UnmarshalUint16(b) == b[1] * 256 + b[2]

\* mergeindex.MarshalCommonPrefix: the namespace byte
MarshalCommonPrefix(dst, ns) == Append(dst, ns)

\* marshalTagValue: the value followed by the tag separator.  Names, keys and
\* values of the model hold no byte that the codec has to escape.
marshalTagValue(dst, v) == dst \o v \o <<tagSeparatorChar>>
marshalTagValueNoTrailingTagSeparator(dst, v) == dst \o v

\* marshalCompositeNamePrefix / marshalCompositeTagKey: the composite tag key
\* is measurement ++ separator ++ tagKey, so that the flat key space is
\* partitioned by measurement, then by tag key
marshalCompositeNamePrefix(dst, name) ==
    dst \o name \o <<compositeSeparatorChar>>
marshalCompositeTagKey(dst, name, key) ==
    marshalCompositeNamePrefix(dst, name) \o key

\* tagToTSIDsRowParser.InitOnlyTail: the tail is a non-empty list of 8-byte TSIDs
InitOnlyTailOk(tail) == Len(tail) > 0 /\ Len(tail) % 8 = 0
\* tagToTSIDsRowParser.TSIDsLen
TSIDsLen(tail) == Len(tail) \div 8
\* tagToTSIDsRowParser.ParseTSIDs: mp.TSIDs, in row order
ParseTSIDs(tail) ==
    [i \in 1..TSIDsLen(tail) |-> UnmarshalUint64(SubSeq(tail, 8 * (i - 1) + 1, 8 * i))]

SeqToSet(s) == {s[i] : i \in 1..Len(s)}

(***************************************************************************)
(* Names of the model's datasets ("cpu", "mem", "host", "dc", ...).        *)
(***************************************************************************)
Cpu == <<99, 112, 117>>
Mem == <<109, 101, 109>>
Disk == <<100, 105, 115, 107>>
Host == <<104, 111, 115, 116>>
Dc == <<100, 99>>
SeriesNo == <<110>>
Usage == <<117>>
ValA == <<97>>
ValB == <<98>>
ValA1 == <<97, 49>>
ValA2 == <<97, 50>>
ValB1 == <<98, 49>>
ValX == <<120>>
TSIDs == 1..MaxTSID
\* the value of tag n of series t: its number as a digit
ValNo(t) == <<48 + t>>

(***************************************************************************)
(* The rows of a dataset.  A (measurement, key, value) whose TSID list is  *)
(* longer than the row capacity spans several contiguous rows.             *)
(***************************************************************************)
Tag1(k, v) == [x \in {k} |-> v]
Tag2(k1, v1, k2, v2) == [x \in {k1, k2} |-> IF x = k1 THEN v1 ELSE v2]
Series(m, tags, ver) == [mst |-> m, tags |-> tags, ver |-> ver]

\* the TSIDs of dataset d that carry tag k = v in measurement m
TSIDsOf(d, m, k, v) ==
    {t \in DOMAIN d : d[t].mst = m /\ k \in DOMAIN d[t].tags /\ d[t].tags[k] = v}

\* the sorted TSID list cut into rows of at most cap TSIDs
RECURSIVE Chunks(_, _)
Chunks(s, cap) ==
    IF Len(s) = 0 THEN {}
    ELSE IF Len(s) <= cap THEN {s}
    ELSE {SubSeq(s, 1, cap)} \cup Chunks(SubSeq(s, cap + 1, Len(s)), cap)

\* one tag->TSIDs row
TagRow(m, k, v, tsidList) ==
    marshalTagValue(
        marshalTagValue(MarshalCommonPrefix(<<>>, nsPrefixTagToTSIDs),
                        marshalCompositeTagKey(<<>>, m, k)), v)
    \o Concat([i \in 1..Len(tsidList) |-> MarshalUint64(tsidList[i])])

\* the encoded series key: the measurement name, the tags, the 2-byte version
SeriesKey(s) ==
    <<Len(s.mst)>> \o s.mst
    \o Concat([i \in 1..Len(SortItems(DOMAIN s.tags)) |->
                 LET k == SortItems(DOMAIN s.tags)[i]
                 IN <<Len(k)>> \o k \o <<Len(s.tags[k])>> \o s.tags[k]])
    \o MarshalUint16(s.ver)

\* one TSID->key row
KeyRow(t, s) ==
    MarshalCommonPrefix(<<>>, nsPrefixTSIDToKey) \o MarshalUint64(t) \o SeriesKey(s)

\* the (measurement, key, value) triples of a dataset
TagTriples(d) ==
    UNION {{<<d[t].mst, k, d[t].tags[k]>> : k \in DOMAIN d[t].tags} : t \in DOMAIN d}

TagRows(d, cap) ==
    UNION {{TagRow(x[1], x[2], x[3], c) :
                c \in Chunks(SortedSeq(TSIDsOf(d, x[1], x[2], x[3])), cap)} :
           x \in TagTriples(d)}

KeyRows(d) == {KeyRow(t, d[t]) : t \in DOMAIN d}

BuildTable(d, cap) == SortItems(TagRows(d, cap) \cup KeyRows(d))

(***************************************************************************)
(* mergeset.TableSearch: the cursor of an indexSearch.  A position is the  *)
(* index of the item the next NextItem call returns.                       *)
(***************************************************************************)
\* the indexSearch of a query: its table and the point where its reads fail
IndexSearch(t, fail) == [tbl |-> t, fail |-> fail]

\* ts.Seek(k): the position of the first item >= k (the table is sorted)
TsSeek(is, k) == 1 + Cardinality({i \in 1..Len(is.tbl) : LexLess(is.tbl[i], k)})

\* the read of the item at pos fails
TsFails(is, pos) == is.fail # 0 /\ pos >= is.fail
\* ts.NextItem() returns true at pos
TsNextItem(is, pos) == pos <= Len(is.tbl) /\ ~TsFails(is, pos)
\* ts.Error() after NextItem returned false at pos
TsError(is, pos) == IF TsFails(is, pos) THEN "io" ELSE "nil"

\* ts.FirstItemWithPrefix(prefix): "nil" with the item's position, "EOF" or "io"
FirstItemWithPrefix(is, prefix) ==
    LET pos == TsSeek(is, prefix) IN
    IF ~TsNextItem(is, pos)
    THEN [err |-> IF TsFails(is, pos) THEN "io" ELSE "EOF", pos |-> pos]
    ELSE IF ~HasPrefix(is.tbl[pos], prefix)
         THEN [err |-> "EOF", pos |-> pos]
         ELSE [err |-> "nil", pos |-> pos]

(***************************************************************************)
(* Point lookups: series key -> TSID and TSID -> series key.               *)
(***************************************************************************)
\* one key->TSID row
KeyToTSIDRow(t, s) ==
    <<nsPrefixKeyToTSID>> \o SeriesKey(s) \o <<kvSeparatorChar>> \o MarshalUint64(t)

KeyToTSIDRows(d) == {KeyToTSIDRow(t, d[t]) : t \in DOMAIN d}

\* a lookup result: the value, the error ("nil", "EOF" or the cursor's
\* error) and the search prefix the error message is wrapped with
LookupResult(v, err, prefix) == [v |-> v, err |-> err, prefix |-> prefix]

\* faulty variant of getTSIDBySeriesKey: the cursor error is not looked at
\* after the loop
getTSIDBySeriesKeyNoErrorCheck(is, indexkey) ==
    LET kb == <<nsPrefixKeyToTSID>> \o indexkey \o <<kvSeparatorChar>>
        pos == TsSeek(is, kb)
    IN IF TsNextItem(is, pos)
       THEN IF ~HasPrefix(is.tbl[pos], kb) THEN LookupResult(0, "EOF", <<>>)
            ELSE LookupResult(UnmarshalUint64(From(is.tbl[pos], Len(kb))), "nil", <<>>)
       ELSE LookupResult(0, "EOF", <<>>)

\* indexSearch.getTSIDBySeriesKey(indexkey)
getTSIDBySeriesKey(is, indexkey) ==
    LET kb == <<nsPrefixKeyToTSID>> \o indexkey \o <<kvSeparatorChar>>
        pos == TsSeek(is, kb)
    IN IF TsNextItem(is, pos)
       THEN IF ~HasPrefix(is.tbl[pos], kb) THEN LookupResult(0, "EOF", <<>>)
            ELSE LookupResult(UnmarshalUint64(From(is.tbl[pos], Len(kb))), "nil", <<>>)
       ELSE IF TsError(is, pos) # "nil" THEN LookupResult(0, TsError(is, pos), kb)
       ELSE LookupResult(0, "EOF", <<>>)

\* indexSearch.searchSeriesKey(dst, tsid)
searchSeriesKey(is, dst, tsid) ==
    LET kb == MarshalCommonPrefix(<<>>, nsPrefixTSIDToKey) \o MarshalUint64(tsid)
        r == FirstItemWithPrefix(is, kb)
    IN IF r.err = "EOF" THEN LookupResult(dst, "EOF", <<>>)
       ELSE IF r.err # "nil" THEN LookupResult(dst, r.err, kb)
       ELSE LookupResult(dst \o From(is.tbl[r.pos], Len(kb)), "nil", <<>>)

(***************************************************************************)
(* uint64set.Set: a *Set is nil or a set of TSIDs.                         *)
(***************************************************************************)
NilSet == [isNil |-> TRUE, s |-> {}]
NewSet(S) == [isNil |-> FALSE, s |-> S]
\* a function result (*uint64set.Set, error)
SetResult(set, err) == [err |-> err, set |-> set]
\* Set.Len, Set.Has: both accept a nil receiver
SetLen(a) == Cardinality(a.s)
SetHas(a, t) == t \in a.s
\* s.Intersect(a), s.UnionMayOwn(a), s.Subtract(a): the receiver afterwards
Intersect(s, a) == [s EXCEPT !.s = s.s \cap a.s]
UnionMayOwn(s, a) == [s EXCEPT !.s = s.s \cup a.s]
Subtract(s, a) == [s EXCEPT !.s = s.s \ a.s]
\* s.AppendTo(nil): the members in ascending order
AppendTo(s) == SortedSeq(s.s)

(***************************************************************************)
(* tagFilter.  A regular expression is one of /.*/ ("any"), /^lit.*/       *)
(* ("prefix") and /^(v1|v2|..)$/ ("alt").                                  *)
(***************************************************************************)
Regex(kind, lits) == [kind |-> kind, lits |-> lits]
ReAny == Regex("any", <<>>)

\* the compiled matcher applied to a raw tag value
ReMatch(re, v) ==
    CASE re.kind = "any" -> TRUE
      [] re.kind = "prefix" -> HasPrefix(v, re.lits[1])
      [] re.kind = "alt" -> v \in SeqToSet(re.lits)

\* the literal alternatives an anchored alternation is equivalent to
getOrValues(re) == IF re.kind = "alt" THEN re.lits ELSE <<>>

\* tagFilter.Init(name, key, value, isNegative, isRegexp)
TagFilterInit(name, key, value, isNegative, isRegexp) ==
    [name |-> name, key |-> key, value |-> value,
     isNegative |-> isNegative, isRegexp |-> isRegexp,
     prefix |-> marshalTagValue(MarshalCommonPrefix(<<>>, nsPrefixTagToTSIDs),
                                marshalCompositeTagKey(<<>>, name, key)),
     orSuffixes |-> IF isRegexp THEN getOrValues(value) ELSE <<value>>]

\* tagFilter.matchSuffix(suffix): [ok, err]
matchSuffix(tf, suffix) ==
    IF Len(suffix) = 0 \/ suffix[Len(suffix)] # tagSeparatorChar
    THEN [ok |-> FALSE, err |-> "suffix"]
    ELSE LET v == SubSeq(suffix, 1, Len(suffix) - 1)
             m == IF tf.isRegexp THEN ReMatch(tf.value, v) ELSE v = tf.value
         IN [ok |-> (m # tf.isNegative), err |-> "nil"]

(***************************************************************************)
(* Row scans.  A scan returns its error and what it collected.             *)
(***************************************************************************)
\* the state of a slow scan: the TSIDs passed to f, the positions where
\* matchSuffix was called and the positions read, in order
ScanState(tsids, evals, visited) ==
    [tsids |-> tsids, evals |-> evals, visited |-> visited]
ScanResult(err, st) ==
    [err |-> err, tsids |-> st.tsids, evals |-> st.evals, visited |-> st.visited]

\* the TSIDs of a row that the loop passes to f (search.go:634-639, 673-678)
PassedToF(ids, filter) == {t \in SeqToSet(ids) : filter.isNil \/ SetHas(filter, t)}

\* faulty variant of HasCommonTSIDs: it probes the first TSID of the row only
HasCommonTSIDsFirst(ids, filter) == Len(ids) > 0 /\ SetHas(filter, ids[1])

\* mp.HasCommonTSIDs(filter)
HasCommonTSIDs(ids, filter) == \E t \in SeqToSet(ids) : SetHas(filter, t)

\* faulty variant of NextValueKey: it drops the separator and increments the
\* last byte of the tag value
NextValueKeyOfValue(kb) ==
    [SubSeq(kb, 1, Len(kb) - 1) EXCEPT ![Len(kb) - 1] = @ + 1]

\* the key the loop seeks to skip the rows of a rejected value: the bytes of
\* the row through the separator with the separator incremented
NextValueKey(kb) == [kb EXCEPT ![Len(kb)] = @ + 1]

\* the loop of getTSIDsForTagFilterSlow from cursor position pos on
RECURSIVE SlowLoop(_, _, _, _, _, _, _)
SlowLoop(is, tf, filter, pos, prevMatch, prevMatchingSuffix, st) ==
    IF ~TsNextItem(is, pos) THEN ScanResult(TsError(is, pos), st)
    ELSE
    LET item == is.tbl[pos]
        st1 == [st EXCEPT !.visited = Append(@, pos)]
    IN
    IF ~HasPrefix(item, tf.prefix) THEN ScanResult("nil", st1)
    ELSE
    LET tail0 == From(item, Len(tf.prefix))
        n == IndexByte(tail0, tagSeparatorChar)
    IN
    IF n < 0 THEN ScanResult("corrupt", st1)
    ELSE
    LET suffix == SubSeq(tail0, 1, n + 1)
        tail == From(tail0, n + 1)
    IN
    IF ~InitOnlyTailOk(tail) THEN ScanResult("parse", st1)
    ELSE
    LET ids == ParseTSIDs(tail)
        collected == [st1 EXCEPT !.tsids = @ \cup PassedToF(ids, filter)]
    IN
    IF prevMatch /\ suffix = prevMatchingSuffix
    THEN SlowLoop(is, tf, filter, pos + 1, prevMatch, prevMatchingSuffix, collected)
    ELSE IF ~filter.isNil /\ ~HasCommonTSIDs(ids, filter)
    THEN SlowLoop(is, tf, filter, pos + 1, prevMatch, prevMatchingSuffix, st1)
    ELSE
    LET m == matchSuffix(tf, suffix)
        st2 == [st1 EXCEPT !.evals = @ \cup {pos}]
        kb == SubSeq(item, 1, Len(item) - Len(tail))
    IN
    IF m.err # "nil" THEN ScanResult(m.err, st2)
    ELSE IF ~m.ok
    THEN IF TSIDsLen(tail) < MaxTSIDsPerRow \div 2
         THEN SlowLoop(is, tf, filter, pos + 1, FALSE, prevMatchingSuffix, st2)
         ELSE IF Len(kb) = 0 \/ kb[Len(kb)] # tagSeparatorChar \/ tagSeparatorChar >= 255
              THEN ScanResult("corrupt", st2)
              ELSE SlowLoop(is, tf, filter,
                            TsSeek(is, NextValueKey(kb)),
                            FALSE, prevMatchingSuffix, st2)
    ELSE SlowLoop(is, tf, filter, pos + 1, TRUE, suffix,
                  [st2 EXCEPT !.tsids = @ \cup PassedToF(ids, filter)])

\* indexSearch.getTSIDsForTagFilterSlow(tf, filter, f)
getTSIDsForTagFilterSlow(is, tf, filter) ==
    IF Len(tf.orSuffixes) > 0
    THEN ScanResult("panic", ScanState({}, {}, <<>>))
    ELSE SlowLoop(is, tf, filter, TsSeek(is, tf.prefix), FALSE, <<>>,
                  ScanState({}, {}, <<>>))

\* the loop of updateTSIDsByOrSuffix from cursor position pos on
RECURSIVE OrSuffixLoop(_, _, _, _)
OrSuffixLoop(is, prefix, pos, tsids) ==
    IF ~TsNextItem(is, pos) THEN [err |-> TsError(is, pos), tsids |-> tsids]
    ELSE
    LET item == is.tbl[pos] IN
    IF ~HasPrefix(item, prefix) THEN [err |-> "nil", tsids |-> tsids]
    ELSE IF ~InitOnlyTailOk(From(item, Len(prefix)))
    THEN [err |-> "parse", tsids |-> tsids]
    ELSE OrSuffixLoop(is, prefix, pos + 1,
                      tsids \cup SeqToSet(ParseTSIDs(From(item, Len(prefix)))))

\* faulty variant of updateTSIDsByOrSuffix: it reads the first row of the
\* prefix only
updateTSIDsByOrSuffixFirstRow(is, prefix, tsids) ==
    IF ~TsNextItem(is, TsSeek(is, prefix))
    THEN [err |-> TsError(is, TsSeek(is, prefix)), tsids |-> tsids]
    ELSE IF ~HasPrefix(is.tbl[TsSeek(is, prefix)], prefix)
    THEN [err |-> "nil", tsids |-> tsids]
    ELSE [err |-> "nil",
          tsids |-> tsids \cup SeqToSet(ParseTSIDs(
                        From(is.tbl[TsSeek(is, prefix)], Len(prefix))))]

\* indexSearch.updateTSIDsByOrSuffix(prefix, tsids)
updateTSIDsByOrSuffix(is, prefix, tsids) ==
    OrSuffixLoop(is, prefix, TsSeek(is, prefix), tsids)

\* the loop over tf.orSuffixes of updateTSIDsByOrSuffixesOfTagFilter
RECURSIVE OrSuffixesLoop(_, _, _, _)
OrSuffixesLoop(is, tf, i, tsids) ==
    IF i > Len(tf.orSuffixes) THEN [err |-> "nil", tsids |-> tsids]
    ELSE LET r == updateTSIDsByOrSuffix(
                      is, tf.prefix \o tf.orSuffixes[i] \o <<tagSeparatorChar>>, tsids)
         IN IF r.err # "nil" THEN r ELSE OrSuffixesLoop(is, tf, i + 1, r.tsids)

\* faulty variant of updateTSIDsByOrSuffixesOfTagFilter: the key of a value
\* is built without the trailing tag separator
updateTSIDsByOrSuffixesNoSeparator(is, tf, tsids) ==
    IF tf.isNegative THEN [err |-> "panic", tsids |-> tsids]
    ELSE updateTSIDsByOrSuffix(is, tf.prefix \o tf.orSuffixes[1], tsids)

\* indexSearch.updateTSIDsByOrSuffixesOfTagFilter(tf, tsids)
updateTSIDsByOrSuffixesOfTagFilter(is, tf, tsids) ==
    IF tf.isNegative THEN [err |-> "panic", tsids |-> tsids]
    ELSE OrSuffixesLoop(is, tf, 1, tsids)

\* faulty variant of TSIDsOrError: the TSIDs collected before the error are
\* returned along with it
TSIDsOrErrorPartial(r) == SetResult(NewSet(r.tsids), r.err)

\* "if err != nil { return nil, err }; return tsids, nil" after a scan r
TSIDsOrError(r) ==
    IF r.err # "nil" THEN SetResult(NilSet, r.err)
    ELSE SetResult(NewSet(r.tsids), "nil")

\* faulty variant of searchTSIDsByTagFilter: every filter takes the fast path
searchTSIDsByTagFilterFastOnly(is, tf) ==
    IF tf.isNegative THEN SetResult(NilSet, "panic")
    ELSE TSIDsOrError(updateTSIDsByOrSuffixesOfTagFilter(is, tf, {}))

\* indexSearch.searchTSIDsByTagFilter(tf)
searchTSIDsByTagFilter(is, tf) ==
    IF tf.isNegative THEN SetResult(NilSet, "panic")
    ELSE IF Len(tf.orSuffixes) > 0
    THEN TSIDsOrError(updateTSIDsByOrSuffixesOfTagFilter(is, tf, {}))
    ELSE TSIDsOrError(getTSIDsForTagFilterSlow(is, tf, NilSet))

\* the loop of updateTSIDsForPrefix from cursor position pos on
RECURSIVE SkipSeps(_, _)
SkipSeps(tail, tagSeps) ==
    IF tagSeps = 0 THEN [ok |-> TRUE, tail |-> tail]
    ELSE LET n == IndexByte(tail, tagSeparatorChar)
         IN IF n < 0 THEN [ok |-> FALSE, tail |-> tail]
            ELSE SkipSeps(From(tail, n + 1), tagSeps - 1)

RECURSIVE PrefixLoop(_, _, _, _, _)
PrefixLoop(is, prefix, pos, tsids, tagSeps) ==
    IF ~TsNextItem(is, pos) THEN [err |-> TsError(is, pos), tsids |-> tsids]
    ELSE
    LET item == is.tbl[pos] IN
    IF ~HasPrefix(item, prefix) THEN [err |-> "nil", tsids |-> tsids]
    ELSE
    LET sk == SkipSeps(From(item, Len(prefix)), tagSeps) IN
    IF ~sk.ok THEN [err |-> "corrupt", tsids |-> tsids]
    ELSE IF ~InitOnlyTailOk(sk.tail) THEN [err |-> "parse", tsids |-> tsids]
    ELSE PrefixLoop(is, prefix, pos + 1,
                    tsids \cup SeqToSet(ParseTSIDs(sk.tail)), tagSeps)

\* indexSearch.updateTSIDsForPrefix(prefix, tsids, tagSeps)
updateTSIDsForPrefix(is, prefix, tsids, tagSeps) ==
    PrefixLoop(is, prefix, TsSeek(is, prefix), tsids, tagSeps)

\* the loop of getSeriesCount from cursor position pos on: [count, err]
RECURSIVE CountLoop(_, _, _, _)
CountLoop(is, prefix, pos, seriesCount) ==
    IF ~TsNextItem(is, pos) THEN [count |-> seriesCount, err |-> "nil"]
    ELSE
    LET item == is.tbl[pos] IN
    IF ~HasPrefix(item, prefix) THEN [count |-> seriesCount, err |-> "nil"]
    ELSE
    LET n == IndexByte(From(item, Len(prefix)), tagSeparatorChar)
        tail == From(From(item, Len(prefix)), n + 1)
    IN
    IF n < 0 THEN [count |-> 0, err |-> "corrupt"]
    ELSE IF ~InitOnlyTailOk(tail) THEN [count |-> 0, err |-> "parse"]
    ELSE CountLoop(is, prefix, pos + 1, seriesCount + TSIDsLen(tail))

\* indexSearch.getSeriesCount(prefix)
getSeriesCount(is, prefix) == CountLoop(is, prefix, TsSeek(is, prefix), 0)

\* tagToTSIDsRowParser.Init(item, nsPrefixTagToTSIDs): the composite tag
\* key, the tag value and the TSID tail of a row
RowParserInit(item) ==
    LET afterNs == From(item, 1)
        n1 == IndexByte(afterNs, tagSeparatorChar)
        afterKey == From(afterNs, n1 + 1)
        n2 == IndexByte(afterKey, tagSeparatorChar)
        tail == From(afterKey, n2 + 1)
    IN IF n1 < 0 \/ n2 < 0 THEN [err |-> "corrupt", value |-> <<>>, tail |-> <<>>]
       ELSE IF ~InitOnlyTailOk(tail) THEN [err |-> "parse", value |-> <<>>, tail |-> <<>>]
       ELSE [err |-> "nil", value |-> SubSeq(afterKey, 1, n2), tail |-> tail]

\* faulty variant of IsExpectedTag: the two sets are probed one after the
\* other, so a deleted eligible TSID and a live ineligible one pass together
IsExpectedTagSeparately(ids, deleted, eligible) ==
    /\ \E t \in SeqToSet(ids) : t \notin deleted
    /\ eligible.isNil \/ \E t \in SeqToSet(ids) : SetHas(eligible, t)

\* tagToTSIDsRowParser.IsExpectedTag(deletedTSIDs, eligibleTSIDs): some TSID
\* of the row is not deleted and, when a set is given, eligible
IsExpectedTag(ids, deleted, eligible) ==
    \E t \in SeqToSet(ids) :
        t \notin deleted /\ (eligible.isNil \/ SetHas(eligible, t))

\* the loop of searchTagValuesBySingleKey from cursor position pos on
RECURSIVE TagValuesLoop(_, _, _, _, _, _)
TagValuesLoop(is, prefix, pos, deleted, eligible, tagValueMap) ==
    IF ~TsNextItem(is, pos)
    THEN IF TsError(is, pos) # "nil" THEN [values |-> {}, err |-> TsError(is, pos)]
         ELSE [values |-> tagValueMap, err |-> "nil"]
    ELSE
    LET item == is.tbl[pos] IN
    IF ~HasPrefix(item, prefix) THEN [values |-> tagValueMap, err |-> "nil"]
    ELSE
    LET mp == RowParserInit(item) IN
    IF mp.err # "nil" THEN [values |-> {}, err |-> mp.err]
    ELSE IF ~IsExpectedTag(ParseTSIDs(mp.tail), deleted, eligible)
    THEN TagValuesLoop(is, prefix, pos + 1, deleted, eligible, tagValueMap)
    ELSE IF TSIDsLen(mp.tail) < MaxTSIDsPerRow
    THEN TagValuesLoop(is, prefix, pos + 1, deleted, eligible,
                       tagValueMap \cup {mp.value})
    ELSE TagValuesLoop(is, prefix,
                       TsSeek(is, prefix \o mp.value \o <<tagSeparatorChar + 1>>),
                       deleted, eligible, tagValueMap \cup {mp.value})

\* faulty variant of NextTagValueKey: the separator is not incremented
NextTagValueKeySame(prefix, value) == prefix \o value \o <<tagSeparatorChar>>

\* the key searchTagValuesBySingleKey seeks after a full row of value:
\* prefix, the marshalled value, and its separator incremented
NextTagValueKey(prefix, value) == prefix \o value \o <<tagSeparatorChar + 1>>

\* the positions the loop of searchTagValuesBySingleKey reads from cursor
\* position pos on, in order; the list is cut off once it is longer than
\* the table
RECURSIVE TagValuesReads(_, _, _, _, _, _)
TagValuesReads(is, prefix, pos, deleted, eligible, reads) ==
    IF ~TsNextItem(is, pos) \/ Len(reads) > Len(is.tbl) THEN reads
    ELSE IF ~HasPrefix(is.tbl[pos], prefix) \/ RowParserInit(is.tbl[pos]).err # "nil"
    THEN Append(reads, pos)
    ELSE IF \/ ~IsExpectedTag(ParseTSIDs(RowParserInit(is.tbl[pos]).tail),
                              deleted, eligible)
            \/ TSIDsLen(RowParserInit(is.tbl[pos]).tail) < MaxTSIDsPerRow
    THEN TagValuesReads(is, prefix, pos + 1, deleted, eligible, Append(reads, pos))
    ELSE TagValuesReads(is, prefix,
                        TsSeek(is, NextTagValueKey(prefix,
                                                   RowParserInit(is.tbl[pos]).value)),
                        deleted, eligible, Append(reads, pos))

\* the positions searchTagValuesBySingleKey(name, tagKey, eligibleTSIDs) reads
searchTagValuesBySingleKeyReads(is, name, tagKey, eligible, deleted) ==
    TagValuesReads(is,
                   marshalTagValue(<<nsPrefixTagToTSIDs>>,
                                   marshalCompositeTagKey(<<>>, name, tagKey)),
                   TsSeek(is, marshalTagValue(<<nsPrefixTagToTSIDs>>,
                                              marshalCompositeTagKey(<<>>, name, tagKey))),
                   deleted, eligible, <<>>)

\* indexSearch.searchTagValuesBySingleKey(name, tagKey, eligibleTSIDs)
searchTagValuesBySingleKey(is, name, tagKey, eligible, deleted) ==
    LET prefix == marshalTagValue(<<nsPrefixTagToTSIDs>>,
                                  marshalCompositeTagKey(<<>>, name, tagKey))
    IN TagValuesLoop(is, prefix, TsSeek(is, prefix), deleted, eligible, {})

\* indexSearch.getTSIDsByMeasurementName(name)
getTSIDsByMeasurementName(is, name) ==
    LET kb == marshalTagValue(MarshalCommonPrefix(<<>>, nsPrefixTagToTSIDs),
                              marshalCompositeNamePrefix(<<>>, name))
    IN TSIDsOrError(updateTSIDsForPrefix(is, SubSeq(kb, 1, Len(kb) - 1), {}, 2))

\* indexSearch.searchTSIDsByTimeRange(name, tr)
searchTSIDsByTimeRange(is, name) == getTSIDsByMeasurementName(is, name)

\* getTSIDsByTagFilter, the negative case: the series tsids of the
\* measurement minus the series m of the positive filter (search.go:510-520)
subtractMatching(tsids, m) ==
    IF tsids.err # "nil" THEN SetResult(NilSet, tsids.err)
    ELSE IF m.err # "nil" THEN SetResult(NilSet, m.err)
    ELSE SetResult(Subtract(tsids.set, m.set), "nil")

\* faulty variant of getTSIDsByTagFilter: a negative filter is answered by a
\* scan of the rows of the key with the inverted matcher
getTSIDsByTagFilterInverted(is, tf) ==
    IF ~tf.isNegative THEN searchTSIDsByTagFilter(is, tf)
    ELSE TSIDsOrError(getTSIDsForTagFilterSlow(is, [tf EXCEPT !.orSuffixes = <<>>], NilSet))

\* indexSearch.getTSIDsByTagFilter(tf)
getTSIDsByTagFilter(is, tf) ==
    IF ~tf.isNegative THEN searchTSIDsByTagFilter(is, tf)
    ELSE subtractMatching(getTSIDsByMeasurementName(is, tf.name),
                          searchTSIDsByTagFilter(is, [tf EXCEPT !.isNegative = FALSE]))

\* indexSearch.searchTSIDsByTagFilterAndDateRange(tf, tr)
searchTSIDsByTagFilterAndDateRange(is, tf) == getTSIDsByTagFilter(is, tf)

\* faulty variant of containsMeasurement: the probe takes the prefix of the
\* tag rows of all measurements
containsMeasurementAnyName(is, name) ==
    IF FirstItemWithPrefix(is, MarshalCommonPrefix(<<>>, nsPrefixTagToTSIDs)).err = "io"
    THEN [ok |-> FALSE, err |-> "io"]
    ELSE IF FirstItemWithPrefix(is, MarshalCommonPrefix(<<>>, nsPrefixTagToTSIDs)).err = "EOF"
    THEN [ok |-> FALSE, err |-> "nil"]
    ELSE [ok |-> TRUE, err |-> "nil"]

\* indexSearch.containsMeasurement(name): [ok, err]
containsMeasurement(is, name) ==
    LET kb == marshalTagValueNoTrailingTagSeparator(
                  MarshalCommonPrefix(<<>>, nsPrefixTagToTSIDs),
                  marshalCompositeNamePrefix(<<>>, name))
        r == FirstItemWithPrefix(is, kb)
    IN IF r.err = "io" THEN [ok |-> FALSE, err |-> "io"]
       ELSE IF r.err = "EOF" THEN [ok |-> FALSE, err |-> "nil"]
       ELSE [ok |-> TRUE, err |-> "nil"]

(***************************************************************************)
(* influxql expressions: a node is a record tagged by its type.            *)
(***************************************************************************)
NilExpr == [t |-> "nil"]
BinaryExpr(op, lhs, rhs) == [t |-> "binary", op |-> op, lhs |-> lhs, rhs |-> rhs]
ParenExpr(e) == [t |-> "paren", expr |-> e]
BooleanLiteral(v) == [t |-> "bool", val |-> v]
VarRef(val, typ) == [t |-> "varref", val |-> val, typ |-> typ]
StringLiteral(v) == [t |-> "string", val |-> v]
RegexLiteral(re) == [t |-> "regex", val |-> re]
NumberLiteral(v) == [t |-> "number", val |-> v]

\* faulty variant of searchTSIDsByBinaryExpr: the filter of a string literal
\* is never negative
searchTSIDsByBinaryExprPositive(is, name, n) ==
    IF n.lhs.t = "binary" \/ n.rhs.t = "binary" THEN SetResult(NilSet, "nil")
    ELSE IF n.lhs.t # "varref" /\ n.rhs.t # "varref"
    THEN searchTSIDsByTimeRange(is, name)
    ELSE
    LET key == IF n.lhs.t = "varref" THEN n.lhs ELSE n.rhs
        value == IF n.lhs.t = "varref" THEN n.rhs ELSE n.lhs
    IN
    IF key.typ # "tag" THEN searchTSIDsByTimeRange(is, name)
    ELSE IF value.t = "string"
    THEN searchTSIDsByTagFilterAndDateRange(
             is, TagFilterInit(name, key.val, value.val, FALSE, FALSE))
    ELSE IF value.t = "regex"
    THEN searchTSIDsByTagFilterAndDateRange(
             is, TagFilterInit(name, key.val, value.val, n.op = "NEQREGEX", TRUE))
    ELSE IF value.t = "varref"
    THEN searchTSIDsByTagFilterAndDateRange(
             is, TagFilterInit(name, key.val, value.val, n.op = "NEQ", FALSE))
    ELSE searchTSIDsByTimeRange(is, name)

\* indexSearch.searchTSIDsByBinaryExpr(name, n, tr)
searchTSIDsByBinaryExpr(is, name, n) ==
    IF n.lhs.t = "binary" \/ n.rhs.t = "binary" THEN SetResult(NilSet, "nil")
    ELSE IF n.lhs.t # "varref" /\ n.rhs.t # "varref"
    THEN searchTSIDsByTimeRange(is, name)
    ELSE
    LET key == IF n.lhs.t = "varref" THEN n.lhs ELSE n.rhs
        value == IF n.lhs.t = "varref" THEN n.rhs ELSE n.lhs
    IN
    IF key.typ # "tag" THEN searchTSIDsByTimeRange(is, name)
    ELSE IF value.t = "string"
    THEN searchTSIDsByTagFilterAndDateRange(
             is, TagFilterInit(name, key.val, value.val, n.op = "NEQ", FALSE))
    ELSE IF value.t = "regex"
    THEN searchTSIDsByTagFilterAndDateRange(
             is, TagFilterInit(name, key.val, value.val, n.op = "NEQREGEX", TRUE))
    ELSE IF value.t = "varref"
    THEN searchTSIDsByTagFilterAndDateRange(
             is, TagFilterInit(name, key.val, value.val, n.op = "NEQ", FALSE))
    ELSE searchTSIDsByTimeRange(is, name)

\* faulty variant of combineTSIDs: AND removes the right set from the left
\* set
combineTSIDsSubtract(op, ltsids, rtsids) ==
    IF ltsids.err # "nil" THEN SetResult(NilSet, ltsids.err)
    ELSE IF rtsids.err # "nil" THEN SetResult(NilSet, rtsids.err)
    ELSE IF ltsids.set.isNil THEN SetResult(rtsids.set, "nil")
    ELSE IF rtsids.set.isNil THEN SetResult(ltsids.set, "nil")
    ELSE IF op = "AND" THEN SetResult(Subtract(ltsids.set, rtsids.set), "nil")
    ELSE SetResult(UnionMayOwn(ltsids.set, rtsids.set), "nil")

\* searchTSIDsInternal, the AND/OR case: the results ltsids and rtsids of
\* the two sides combined (search.go:279-305)
combineTSIDs(op, ltsids, rtsids) ==
    IF ltsids.err # "nil" THEN SetResult(NilSet, ltsids.err)
    ELSE IF rtsids.err # "nil" THEN SetResult(NilSet, rtsids.err)
    ELSE IF ltsids.set.isNil THEN SetResult(rtsids.set, "nil")
    ELSE IF rtsids.set.isNil THEN SetResult(ltsids.set, "nil")
    ELSE IF op = "AND" THEN SetResult(Intersect(ltsids.set, rtsids.set), "nil")
    ELSE SetResult(UnionMayOwn(ltsids.set, rtsids.set), "nil")

\* indexSearch.searchTSIDsInternal(name, expr, tr)
RECURSIVE searchTSIDsInternal(_, _, _)
searchTSIDsInternal(is, name, expr) ==
    IF expr.t = "nil" THEN searchTSIDsByTimeRange(is, name)
    ELSE IF expr.t = "binary"
    THEN IF expr.op \in {"AND", "OR"}
         THEN combineTSIDs(expr.op, searchTSIDsInternal(is, name, expr.lhs),
                           searchTSIDsInternal(is, name, expr.rhs))
         ELSE searchTSIDsByBinaryExpr(is, name, expr)
    ELSE IF expr.t = "paren" THEN searchTSIDsInternal(is, name, expr.expr)
    ELSE IF expr.t = "bool"
    THEN IF expr.val THEN searchTSIDsByTimeRange(is, name)
         ELSE SetResult(NilSet, "nil")
    ELSE SetResult(NilSet, "nil")

\* faulty variant of withoutDeleted: the deleted TSIDs are not subtracted
withoutDeletedKept(tsids, deleted) ==
    IF tsids.err # "nil" THEN [list |-> <<>>, err |-> tsids.err, deleted |-> deleted]
    ELSE [list |-> AppendTo(tsids.set), err |-> "nil", deleted |-> deleted]

\* faulty variant of withoutDeleted: the TSIDs are listed from the largest
\* to the smallest
withoutDeletedDescending(tsids, deleted) ==
    IF tsids.err # "nil" THEN [list |-> <<>>, err |-> tsids.err, deleted |-> deleted]
    ELSE [list |-> [i \in 1..SetLen(Subtract(tsids.set, NewSet(deleted))) |->
                      AppendTo(Subtract(tsids.set, NewSet(deleted)))[
                          SetLen(Subtract(tsids.set, NewSet(deleted))) + 1 - i]],
          err |-> "nil", deleted |-> deleted]

\* searchTSIDs once searchTSIDsInternal returned tsids: the deleted TSIDs
\* are subtracted and the rest is listed (search.go:585-597)
withoutDeleted(tsids, deleted) ==
    IF tsids.err # "nil" THEN [list |-> <<>>, err |-> tsids.err, deleted |-> deleted]
    ELSE [list |-> AppendTo(Subtract(tsids.set, NewSet(deleted))),
          err |-> "nil", deleted |-> deleted]

\* indexSearch.searchTSIDs(name, expr, tr): the returned list and error, and
\* the deleted-TSID set as the call leaves it
searchTSIDs(is, name, expr, deleted) ==
    LET c == containsMeasurement(is, name) IN
    IF c.err # "nil" THEN [list |-> <<>>, err |-> c.err, deleted |-> deleted]
    ELSE IF ~c.ok THEN [list |-> <<>>, err |-> "nil", deleted |-> deleted]
    ELSE
    withoutDeleted(searchTSIDsInternal(is, name, expr), deleted)

\* the loop of searchTagValues over tagKeys from key number i on; the
\* values of a key come out of a map, in no order
RECURSIVE TagKeysLoop(_, _, _, _, _, _, _)
TagKeysLoop(is, name, tagKeys, i, eligible, deleted, result) ==
    IF i > Len(tagKeys) THEN [result |-> result, err |-> "nil"]
    ELSE IF searchTagValuesBySingleKey(is, name, tagKeys[i], eligible, deleted).err # "nil"
    THEN [result |-> <<>>,
          err |-> searchTagValuesBySingleKey(is, name, tagKeys[i], eligible, deleted).err]
    ELSE TagKeysLoop(is, name, tagKeys, i + 1, eligible, deleted,
             Append(result,
                 searchTagValuesBySingleKey(is, name, tagKeys[i], eligible, deleted).values))

\* searchTagValues once the condition resolved to e
tagValuesOfEligible(is, name, tagKeys, e, deleted) ==
    IF e.err # "nil" THEN [result |-> <<>>, err |-> e.err]
    ELSE IF SetLen(e.set) = 0 THEN [result |-> <<>>, err |-> "nil"]
    ELSE TagKeysLoop(is, name, tagKeys, 1, e.set, deleted, <<>>)

\* indexSearch.searchTagValues(name, tagKeys, condition)
searchTagValues(is, name, tagKeys, condition, deleted) ==
    IF condition.t # "nil"
    THEN tagValuesOfEligible(is, name, tagKeys,
                             searchTSIDsInternal(is, name, condition), deleted)
    ELSE TagKeysLoop(is, name, tagKeys, 1, NilSet, deleted, <<>>)

\* influx.MeasurementName(key): the measurement name of an encoded series key
MeasurementName(key) ==
    IF Len(key) < 1 \/ Len(key) < 1 + key[1]
    THEN [err |-> "key", name |-> <<>>]
    ELSE [err |-> "nil", name |-> SubSeq(key, 2, 1 + key[1])]

\* indexBuilder.getVersion(name): [version, ok]
getVersion(vers, name) ==
    IF name \in DOMAIN vers THEN [version |-> vers[name], ok |-> TRUE]
    ELSE [version |-> 0, ok |-> FALSE]

\* faulty variant of staleKey: only a key newer than the recent version is
\* taken as stale
staleKeyOnlyNewer(key, mn, vers) ==
    getVersion(vers, mn).ok
    /\ UnmarshalUint16(From(key, Len(key) - 2)) > getVersion(vers, mn).version

\* getAllSeriesKeys: the key's version is not the recent one of its
\* measurement mn (search.go:926-932)
staleKey(key, mn, vers) ==
    LET keyVersion == UnmarshalUint16(From(key, Len(key) - 2))
        v == getVersion(vers, mn)
    IN v.ok /\ keyVersion # v.version

\* the loop of getAllSeriesKeys from cursor position pos on
RECURSIVE AllKeysLoop(_, _, _, _, _, _)
AllKeysLoop(is, prefix, pos, deleted, vers, keys) ==
    IF ~TsNextItem(is, pos)
    THEN IF TsFails(is, pos) THEN [keys |-> <<>>, err |-> "io"]
         ELSE [keys |-> keys, err |-> "nil"]
    ELSE
    LET item == is.tbl[pos] IN
    IF ~HasPrefix(item, prefix) THEN [keys |-> keys, err |-> "nil"]
    ELSE
    LET tail == From(item, 1)
        tsid == UnmarshalUint64(tail)
        key == From(tail, 8)
        mn == MeasurementName(key)
    IN
    IF tsid \in deleted THEN AllKeysLoop(is, prefix, pos + 1, deleted, vers, keys)
    ELSE IF mn.err # "nil" THEN [keys |-> <<>>, err |-> mn.err]
    ELSE IF staleKey(key, mn.name, vers)
    THEN AllKeysLoop(is, prefix, pos + 1, deleted, vers, keys)
    ELSE AllKeysLoop(is, prefix, pos + 1, deleted, vers, Append(keys, key))

\* indexSearch.getAllSeriesKeys(): the keys and error, and the deleted-TSID
\* set as the call leaves it
getAllSeriesKeys(is, deleted, vers) ==
    LET prefix == MarshalCommonPrefix(<<>>, nsPrefixTSIDToKey)
        r == AllKeysLoop(is, prefix, TsSeek(is, prefix), deleted, vers, <<>>)
    IN [keys |-> r.keys, err |-> r.err, deleted |-> deleted]


(***************************************************************************)
(* Series ID iterators (package index) and the iterator path of the        *)
(* predicate evaluation.  An iterator is nil, a set, a set with a deferred *)
(* filter expression, or the intersection or union of two iterators.       *)
(***************************************************************************)
NilItr == [kind |-> "nil"]
\* index.NewSeriesIDSetIterator(index.NewSeriesIDSetWithSet(ids))
NewSeriesIDSetIterator(ids) == [kind |-> "set", ids |-> ids]
\* index.NewSeriesIDExprIterator(itr, expr)
NewSeriesIDExprIterator(itr, expr) == [kind |-> "expr", ids |-> itr.ids, expr |-> expr]
\* index.NewSeriesIDExprIteratorWithSeries(ids, expr)
NewSeriesIDExprIteratorWithSeries(ids, expr) == [kind |-> "expr", ids |-> ids, expr |-> expr]
\* index.IntersectSeriesIDIterators(itr0, itr1): nil when a side is nil
IntersectSeriesIDIterators(itr0, itr1) ==
    IF itr0.kind = "nil" \/ itr1.kind = "nil" THEN NilItr
    ELSE [kind |-> "intersect", l |-> itr0, r |-> itr1]
\* faulty variant of UnionSeriesIDIterators: two iterators are intersected
UnionSeriesIDIteratorsIntersecting(itr0, itr1) ==
    IF itr0.kind = "nil" THEN itr1
    ELSE IF itr1.kind = "nil" THEN itr0
    ELSE [kind |-> "intersect", l |-> itr0, r |-> itr1]
\* index.UnionSeriesIDIterators(itr0, itr1): the other side when a side is nil
UnionSeriesIDIterators(itr0, itr1) ==
    IF itr0.kind = "nil" THEN itr1
    ELSE IF itr1.kind = "nil" THEN itr0
    ELSE [kind |-> "union", l |-> itr0, r |-> itr1]

\* SeriesIDIterator.Ids(): the TSIDs of a non-nil iterator
RECURSIVE ItrIds(_)
ItrIds(itr) ==
    CASE itr.kind \in {"set", "expr"} -> itr.ids
      [] itr.kind = "intersect" -> ItrIds(itr.l) \cap ItrIds(itr.r)
      [] itr.kind = "union" -> ItrIds(itr.l) \cup ItrIds(itr.r)

\* a function result (index.SeriesIDIterator, error); a call that aborts (a
\* failed type assertion, a method call on a nil iterator) has error "panic"
ItrResult(itr, err) == [itr |-> itr, err |-> err]

\* expr2BinaryExpr(expr): [expr, err]
RECURSIVE expr2BinaryExpr(_)
expr2BinaryExpr(expr) ==
    IF expr.t = "paren" THEN expr2BinaryExpr(expr.expr)
    ELSE IF expr.t # "binary" THEN [expr |-> expr, err |-> "ConvertToBinaryExprFailed"]
    ELSE [expr |-> expr, err |-> "nil"]

\* indexSearch.genSeriesIDIterator(ids, n)
genSeriesIDIterator(ids, n) ==
    NewSeriesIDExprIterator(NewSeriesIDSetIterator(ids), n)

\* "if *tsids == nil { *tsids, err = is.searchTSIDsByTimeRange(name, tr) }":
\* the set *tsids holds afterwards.  The search gives the same result each
\* time it runs on one index, so the model does not store what it returned.
allTSIDs(is, name, tsids) ==
    IF tsids.isNil THEN searchTSIDsByTimeRange(is, name) ELSE SetResult(tsids, "nil")

\* the closures newSeriesIDSetIterator and searchAllTSIDsByName once *tsids
\* is resolved to all
setIteratorOf(all) ==
    IF all.err # "nil" THEN ItrResult(NilItr, all.err)
    ELSE ItrResult(NewSeriesIDSetIterator(all.set.s), "nil")
exprIteratorOf(all, n) ==
    IF all.err # "nil" THEN ItrResult(NilItr, all.err)
    ELSE ItrResult(genSeriesIDIterator(all.set.s, n), "nil")

\* seriesByBinaryExpr and seriesByBinaryExprVarRef: the iterator over the
\* set a tag filter search returned
iteratorOfSet(ids) ==
    IF ids.err # "nil" THEN ItrResult(NilItr, ids.err)
    ELSE ItrResult(NewSeriesIDSetIterator(ids.set.s), "nil")

\* seriesByBinaryExprVarRef once both searches returned
combineVarRefSets(set1, set2, equal) ==
    IF set1.err # "nil" THEN ItrResult(NilItr, set1.err)
    ELSE IF set2.err # "nil" THEN ItrResult(NilItr, set2.err)
    ELSE IF equal
    THEN ItrResult(NewSeriesIDSetIterator(Intersect(set1.set, set2.set).s), "nil")
    ELSE ItrResult(NewSeriesIDSetIterator(Subtract(set1.set, set2.set).s), "nil")

\* indexSearch.seriesByBinaryExprVarRef(name, key, val, equal)
seriesByBinaryExprVarRef(is, name, key, val, equal) ==
    combineVarRefSets(
        searchTSIDsByTagFilterAndDateRange(is, TagFilterInit(name, key, ReAny, FALSE, TRUE)),
        searchTSIDsByTagFilterAndDateRange(is, TagFilterInit(name, val, ReAny, FALSE, TRUE)),
        equal)

\* faulty variant of seriesByBinaryExpr: a tag comparison is searched in the
\* index also when the caller gave the single series
seriesByBinaryExprNoFastPath(is, name, n, tsids, singleSeries) ==
    IF n.lhs.t = "binary" \/ n.rhs.t = "binary"
    THEN exprIteratorOf(allTSIDs(is, name, tsids), n)
    ELSE IF n.lhs.t # "varref" /\ n.rhs.t # "varref"
    THEN exprIteratorOf(allTSIDs(is, name, tsids), n)
    ELSE
    LET key == IF n.lhs.t = "varref" THEN n.lhs ELSE n.rhs
        value == IF n.lhs.t = "varref" THEN n.rhs ELSE n.lhs
    IN
    IF key.typ # "tag" THEN ItrResult(NilItr, "ErrFieldExpr")
    ELSE IF value.t = "string"
    THEN iteratorOfSet(searchTSIDsByTagFilterAndDateRange(
             is, TagFilterInit(name, key.val, value.val, n.op # "EQ", FALSE)))
    ELSE IF value.t = "regex"
    THEN iteratorOfSet(searchTSIDsByTagFilterAndDateRange(
             is, TagFilterInit(name, key.val, value.val, n.op # "EQREGEX", TRUE)))
    ELSE IF value.t = "varref"
    THEN seriesByBinaryExprVarRef(is, name, key.val, value.val, n.op = "EQ")
    ELSE exprIteratorOf(allTSIDs(is, name, tsids), n)

\* indexSearch.seriesByBinaryExpr(name, n, tr, tsids, singleSeries)
seriesByBinaryExpr(is, name, n, tsids, singleSeries) ==
    IF n.lhs.t = "binary" \/ n.rhs.t = "binary"
    THEN exprIteratorOf(allTSIDs(is, name, tsids), n)
    ELSE IF n.lhs.t # "varref" /\ n.rhs.t # "varref"
    THEN exprIteratorOf(allTSIDs(is, name, tsids), n)
    ELSE
    LET key == IF n.lhs.t = "varref" THEN n.lhs ELSE n.rhs
        value == IF n.lhs.t = "varref" THEN n.rhs ELSE n.lhs
    IN
    IF key.typ # "tag" THEN ItrResult(NilItr, "ErrFieldExpr")
    ELSE IF singleSeries THEN ItrResult(NewSeriesIDSetIterator(tsids.s), "nil")
    ELSE IF value.t = "string"
    THEN iteratorOfSet(searchTSIDsByTagFilterAndDateRange(
             is, TagFilterInit(name, key.val, value.val, n.op # "EQ", FALSE)))
    ELSE IF value.t = "regex"
    THEN iteratorOfSet(searchTSIDsByTagFilterAndDateRange(
             is, TagFilterInit(name, key.val, value.val, n.op # "EQREGEX", TRUE)))
    ELSE IF value.t = "varref"
    THEN seriesByBinaryExprVarRef(is, name, key.val, value.val, n.op = "EQ")
    ELSE exprIteratorOf(allTSIDs(is, name, tsids), n)

\* the closure f of seriesByAllIdsIterator applied to one side r, a record
\* [expr, itr, err]: the iterator of the side afterwards
allIdsSide(all, r) ==
    IF r.err = "ErrFieldExpr"
    THEN ItrResult(genSeriesIDIterator(all.set.s, expr2BinaryExpr(r.expr).expr),
                   expr2BinaryExpr(r.expr).err)
    ELSE ItrResult(r.itr, "nil")

\* faulty variant of allIdsIterators: both sides carry the expression of
\* the left side
allIdsIteratorsLeftExpr(all, li, ri) ==
    IF all.err # "nil" THEN [li |-> NilItr, ri |-> NilItr, err |-> all.err]
    ELSE IF allIdsSide(all, li).err # "nil"
    THEN [li |-> NilItr, ri |-> NilItr, err |-> allIdsSide(all, li).err]
    ELSE IF allIdsSide(all, [ri EXCEPT !.expr = li.expr]).err # "nil"
    THEN [li |-> NilItr, ri |-> NilItr,
          err |-> allIdsSide(all, [ri EXCEPT !.expr = li.expr]).err]
    ELSE [li |-> allIdsSide(all, li).itr,
          ri |-> allIdsSide(all, [ri EXCEPT !.expr = li.expr]).itr, err |-> "nil"]

\* seriesByAllIdsIterator once *tsids is resolved to all: [li, ri, err]
allIdsIterators(all, li, ri) ==
    IF all.err # "nil" THEN [li |-> NilItr, ri |-> NilItr, err |-> all.err]
    ELSE IF allIdsSide(all, li).err # "nil"
    THEN [li |-> NilItr, ri |-> NilItr, err |-> allIdsSide(all, li).err]
    ELSE IF allIdsSide(all, ri).err # "nil"
    THEN [li |-> NilItr, ri |-> NilItr, err |-> allIdsSide(all, ri).err]
    ELSE [li |-> allIdsSide(all, li).itr, ri |-> allIdsSide(all, ri).itr, err |-> "nil"]

\* indexSearch.seriesByAllIdsIterator(name, tr, ei, tsids), ei = (li, ri)
seriesByAllIdsIterator(is, name, li, ri, tsids) ==
    allIdsIterators(allTSIDs(is, name, tsids), li, ri)

\* NewSeriesIDExprIteratorWithSeries(other.Ids(), e.expr): the deferred side
\* of an AND takes the TSIDs of the other side; calling Ids on a nil
\* iterator aborts
deferredOver(other, e) ==
    IF e.err # "nil" THEN ItrResult(NilItr, e.err)
    ELSE IF other.kind = "nil" THEN ItrResult(NilItr, "panic")
    ELSE ItrResult(NewSeriesIDExprIteratorWithSeries(ItrIds(other), e.expr), "nil")

\* the end of the AND case once both sides are settled
intersectSides(l, r) ==
    IF l.err # "nil" THEN ItrResult(NilItr, l.err)
    ELSE IF r.err # "nil" THEN ItrResult(NilItr, r.err)
    ELSE ItrResult(IntersectSeriesIDIterators(l.itr, r.itr), "nil")

\* the end of the AND and OR cases after seriesByAllIdsIterator
combineAllIds(op, a) ==
    IF a.err # "nil" THEN ItrResult(NilItr, a.err)
    ELSE IF op = "AND" THEN ItrResult(IntersectSeriesIDIterators(a.li, a.ri), "nil")
    ELSE ItrResult(UnionSeriesIDIterators(a.li, a.ri), "nil")

\* faulty variant of combineIterators: an AND with one field expression is
\* resolved like an AND of two, over all the series of the measurement
combineIteratorsAllIdsForAnd(is, name, expr, tsids, l, r) ==
    IF l.err \notin {"nil", "ErrFieldExpr"} THEN ItrResult(NilItr, l.err)
    ELSE IF r.err \notin {"nil", "ErrFieldExpr"} THEN ItrResult(NilItr, r.err)
    ELSE IF l.err = "ErrFieldExpr" \/ r.err = "ErrFieldExpr"
    THEN combineAllIds(expr.op,
             seriesByAllIdsIterator(is, name,
                 [expr |-> expr.lhs, itr |-> l.itr, err |-> l.err],
                 [expr |-> expr.rhs, itr |-> r.itr, err |-> r.err], tsids))
    ELSE IF expr.op = "AND"
    THEN ItrResult(IntersectSeriesIDIterators(l.itr, r.itr), "nil")
    ELSE ItrResult(UnionSeriesIDIterators(l.itr, r.itr), "nil")

\* faulty variant of combineIterators: in an OR with one field expression
\* the field side takes the TSIDs of the other side, as in an AND
combineIteratorsOtherSideForOr(is, name, expr, tsids, l, r) ==
    IF l.err \notin {"nil", "ErrFieldExpr"} THEN ItrResult(NilItr, l.err)
    ELSE IF r.err \notin {"nil", "ErrFieldExpr"} THEN ItrResult(NilItr, r.err)
    ELSE IF l.err = "ErrFieldExpr" /\ r.err = "ErrFieldExpr"
    THEN combineAllIds(expr.op,
             seriesByAllIdsIterator(is, name,
                 [expr |-> expr.lhs, itr |-> l.itr, err |-> l.err],
                 [expr |-> expr.rhs, itr |-> r.itr, err |-> r.err], tsids))
    ELSE IF l.err = "ErrFieldExpr"
    THEN IF expr.op = "AND"
         THEN intersectSides(deferredOver(r.itr, expr2BinaryExpr(expr.lhs)), r)
         ELSE ItrResult(UnionSeriesIDIterators(
                  deferredOver(r.itr, expr2BinaryExpr(expr.lhs)).itr, r.itr),
                  deferredOver(r.itr, expr2BinaryExpr(expr.lhs)).err)
    ELSE IF r.err = "ErrFieldExpr"
    THEN IF expr.op = "AND"
         THEN intersectSides(l, deferredOver(l.itr, expr2BinaryExpr(expr.rhs)))
         ELSE ItrResult(UnionSeriesIDIterators(
                  l.itr, deferredOver(l.itr, expr2BinaryExpr(expr.rhs)).itr),
                  deferredOver(l.itr, expr2BinaryExpr(expr.rhs)).err)
    ELSE IF expr.op = "AND"
    THEN ItrResult(IntersectSeriesIDIterators(l.itr, r.itr), "nil")
    ELSE ItrResult(UnionSeriesIDIterators(l.itr, r.itr), "nil")

\* seriesByExprIterator, the AND and OR cases once the two sides returned
\* l and r
combineIterators(is, name, expr, tsids, l, r) ==
    IF l.err \notin {"nil", "ErrFieldExpr"} THEN ItrResult(NilItr, l.err)
    ELSE IF r.err \notin {"nil", "ErrFieldExpr"} THEN ItrResult(NilItr, r.err)
    ELSE IF expr.op = "AND"
    THEN IF l.err = "ErrFieldExpr" /\ r.err # "ErrFieldExpr"
         THEN intersectSides(deferredOver(r.itr, expr2BinaryExpr(expr.lhs)), r)
         ELSE IF l.err # "ErrFieldExpr" /\ r.err = "ErrFieldExpr"
         THEN intersectSides(l, deferredOver(l.itr, expr2BinaryExpr(expr.rhs)))
         ELSE IF l.err = "ErrFieldExpr" /\ r.err = "ErrFieldExpr"
         THEN combineAllIds("AND",
                  seriesByAllIdsIterator(is, name,
                      [expr |-> expr.lhs, itr |-> l.itr, err |-> l.err],
                      [expr |-> expr.rhs, itr |-> r.itr, err |-> r.err], tsids))
         ELSE ItrResult(IntersectSeriesIDIterators(l.itr, r.itr), "nil")
    ELSE IF l.err = "ErrFieldExpr" \/ r.err = "ErrFieldExpr"
         THEN combineAllIds("OR",
                  seriesByAllIdsIterator(is, name,
                      [expr |-> expr.lhs, itr |-> l.itr, err |-> l.err],
                      [expr |-> expr.rhs, itr |-> r.itr, err |-> r.err], tsids))
         ELSE ItrResult(UnionSeriesIDIterators(l.itr, r.itr), "nil")

\* indexSearch.seriesByExprIterator(name, expr, tr, tsids, singleSeries)
RECURSIVE seriesByExprIterator(_, _, _, _, _)
seriesByExprIterator(is, name, expr, tsids, singleSeries) ==
    CASE expr.t = "nil" -> setIteratorOf(allTSIDs(is, name, tsids))
      [] expr.t = "binary" /\ expr.op \in {"AND", "OR"} ->
            combineIterators(is, name, expr, tsids,
                seriesByExprIterator(is, name, expr.lhs, tsids, singleSeries),
                seriesByExprIterator(is, name, expr.rhs, tsids, singleSeries))
      [] expr.t = "binary" /\ expr.op \notin {"AND", "OR"} ->
            seriesByBinaryExpr(is, name, expr, tsids, singleSeries)
      [] expr.t = "paren" ->
            seriesByExprIterator(is, name, expr.expr, tsids, singleSeries)
      [] expr.t = "bool" ->
            IF expr.val THEN setIteratorOf(allTSIDs(is, name, tsids))
            ELSE ItrResult(NilItr, "nil")
      [] OTHER -> ItrResult(NilItr, "nil")

\* measurementSeriesByExprIterator: the conversion of a deferred whole
\* predicate, "is.genSeriesIDIterator(tsids, expr.(*influxql.BinaryExpr))";
\* the type assertion aborts unless expr itself is a binary expression
deferWholeExpr(all, expr) ==
    IF all.err # "nil" THEN ItrResult(NilItr, all.err)
    ELSE IF expr.t # "binary" THEN ItrResult(NilItr, "panic")
    ELSE ItrResult(genSeriesIDIterator(all.set.s, expr), "nil")

\* measurementSeriesByExprIterator after containsMeasurement returned ok
\* and seriesByExprIterator returned r
iteratorOrDeferred(is, name, expr, tsids, r) ==
    IF r.err = "ErrFieldExpr" THEN deferWholeExpr(allTSIDs(is, name, tsids), expr)
    ELSE r

\* indexSearch.measurementSeriesByExprIterator(name, expr, tr, singleSeries, tsid)
measurementSeriesByExprIterator(is, name, expr, singleSeries, tsid) ==
    IF containsMeasurement(is, name).err # "nil"
    THEN ItrResult(NilItr, containsMeasurement(is, name).err)
    ELSE IF ~containsMeasurement(is, name).ok THEN ItrResult(NilItr, "nil")
    ELSE iteratorOrDeferred(is, name, expr,
             IF singleSeries THEN NewSet({tsid}) ELSE NilSet,
             seriesByExprIterator(is, name, expr,
                 IF singleSeries THEN NewSet({tsid}) ELSE NilSet, singleSeries))

(***************************************************************************)
(* The calls a search makes.  Each operator below follows the control flow *)
(* of the function it is named after and lists, in order, the scans the    *)
(* function enters: a scan of a tag filter with the filter it is entered   *)
(* with, a scan of all the rows of a measurement.                          *)
(***************************************************************************)
\* the entry of a routine that takes a tag filter
FilterCall(fn, tf) ==
    [fn |-> fn, key |-> tf.key, isNegative |-> tf.isNegative,
     orSuffixes |-> Len(tf.orSuffixes)]
\* the entry of getTSIDsByMeasurementName
MeasurementCall(name) == [fn |-> "getTSIDsByMeasurementName", name |-> name]
\* searchTSIDsByTimeRange(name, tr) and the scan it makes
TimeRangeCalls(name) ==
    <<[fn |-> "searchTSIDsByTimeRange", name |-> name], MeasurementCall(name)>>

\* searchTSIDsByTagFilter(tf) and the path it takes
searchTSIDsByTagFilterCalls(tf) ==
    <<FilterCall("searchTSIDsByTagFilter", tf)>>
    \o (IF tf.isNegative THEN <<>>
        ELSE IF Len(tf.orSuffixes) > 0
        THEN <<FilterCall("updateTSIDsByOrSuffixesOfTagFilter", tf)>>
        ELSE <<FilterCall("getTSIDsForTagFilterSlow", tf)>>)

\* faulty variant of getTSIDsByTagFilterCalls: the filter keeps isNegative
getTSIDsByTagFilterCallsKeepNegative(is, tf) ==
    IF ~tf.isNegative THEN searchTSIDsByTagFilterCalls(tf)
    ELSE <<MeasurementCall(tf.name)>>
         \o (IF getTSIDsByMeasurementName(is, tf.name).err # "nil" THEN <<>>
             ELSE searchTSIDsByTagFilterCalls(tf))

\* getTSIDsByTagFilter(tf) (searchTSIDsByTagFilterAndDateRange)
getTSIDsByTagFilterCalls(is, tf) ==
    IF ~tf.isNegative THEN searchTSIDsByTagFilterCalls(tf)
    ELSE <<MeasurementCall(tf.name)>>
         \o (IF getTSIDsByMeasurementName(is, tf.name).err # "nil" THEN <<>>
             ELSE searchTSIDsByTagFilterCalls([tf EXCEPT !.isNegative = FALSE]))

\* searchTSIDsByBinaryExpr(name, n, tr)
searchTSIDsByBinaryExprCalls(is, name, n) ==
    IF n.lhs.t = "binary" \/ n.rhs.t = "binary" THEN <<>>
    ELSE IF n.lhs.t # "varref" /\ n.rhs.t # "varref" THEN TimeRangeCalls(name)
    ELSE
    LET key == IF n.lhs.t = "varref" THEN n.lhs ELSE n.rhs
        value == IF n.lhs.t = "varref" THEN n.rhs ELSE n.lhs
    IN
    IF key.typ # "tag" THEN TimeRangeCalls(name)
    ELSE IF value.t = "string"
    THEN getTSIDsByTagFilterCalls(
             is, TagFilterInit(name, key.val, value.val, n.op = "NEQ", FALSE))
    ELSE IF value.t = "regex"
    THEN getTSIDsByTagFilterCalls(
             is, TagFilterInit(name, key.val, value.val, n.op = "NEQREGEX", TRUE))
    ELSE IF value.t = "varref"
    THEN getTSIDsByTagFilterCalls(
             is, TagFilterInit(name, key.val, value.val, n.op = "NEQ", FALSE))
    ELSE TimeRangeCalls(name)

\* searchTSIDsInternal(name, expr, tr): the right side is searched when the
\* left side returned no error
RECURSIVE searchTSIDsInternalCalls(_, _, _)
searchTSIDsInternalCalls(is, name, expr) ==
    IF expr.t = "nil" THEN TimeRangeCalls(name)
    ELSE IF expr.t = "binary"
    THEN IF expr.op \in {"AND", "OR"}
         THEN searchTSIDsInternalCalls(is, name, expr.lhs)
              \o (IF searchTSIDsInternal(is, name, expr.lhs).err # "nil" THEN <<>>
                  ELSE searchTSIDsInternalCalls(is, name, expr.rhs))
         ELSE searchTSIDsByBinaryExprCalls(is, name, expr)
    ELSE IF expr.t = "paren" THEN searchTSIDsInternalCalls(is, name, expr.expr)
    ELSE IF expr.t = "bool" /\ expr.val THEN TimeRangeCalls(name)
    ELSE <<>>

\* searchTSIDs(name, expr, tr)
searchTSIDsCalls(is, name, expr) ==
    IF containsMeasurement(is, name).err # "nil" \/ ~containsMeasurement(is, name).ok
    THEN <<>>
    ELSE searchTSIDsInternalCalls(is, name, expr)

\* searchTagValues(name, tagKeys, condition): searchTagValuesBySingleKey
\* enters no scan of a tag filter
searchTagValuesCalls(is, name, condition) ==
    IF condition.t # "nil" THEN searchTSIDsInternalCalls(is, name, condition)
    ELSE <<>>

\* What a function of the iterator path leaves behind: the calls it made
\* and the set *tsids points to when it returns.
CallsResult(calls, tsids) == [calls |-> calls, tsids |-> tsids]

\* "if *tsids == nil { *tsids, err = is.searchTSIDsByTimeRange(name, tr) }"
allTSIDsCalls(is, name, tsids) ==
    IF tsids.isNil
    THEN CallsResult(TimeRangeCalls(name), searchTSIDsByTimeRange(is, name).set)
    ELSE CallsResult(<<>>, tsids)

\* seriesByBinaryExprVarRef(name, key, val, equal)
seriesByBinaryExprVarRefCalls(is, name, key, val) ==
    getTSIDsByTagFilterCalls(is, TagFilterInit(name, key, ReAny, FALSE, TRUE))
    \o (IF searchTSIDsByTagFilterAndDateRange(
               is, TagFilterInit(name, key, ReAny, FALSE, TRUE)).err # "nil"
        THEN <<>>
        ELSE getTSIDsByTagFilterCalls(is, TagFilterInit(name, val, ReAny, FALSE, TRUE)))

\* seriesByBinaryExpr(name, n, tr, tsids, singleSeries)
seriesByBinaryExprCalls(is, name, n, tsids, singleSeries) ==
    IF n.lhs.t = "binary" \/ n.rhs.t = "binary" THEN allTSIDsCalls(is, name, tsids)
    ELSE IF n.lhs.t # "varref" /\ n.rhs.t # "varref"
    THEN allTSIDsCalls(is, name, tsids)
    ELSE
    LET key == IF n.lhs.t = "varref" THEN n.lhs ELSE n.rhs
        value == IF n.lhs.t = "varref" THEN n.rhs ELSE n.lhs
    IN
    IF key.typ # "tag" THEN CallsResult(<<>>, tsids)
    ELSE IF singleSeries THEN CallsResult(<<>>, tsids)
    ELSE IF value.t = "string"
    THEN CallsResult(getTSIDsByTagFilterCalls(
             is, TagFilterInit(name, key.val, value.val, n.op # "EQ", FALSE)), tsids)
    ELSE IF value.t = "regex"
    THEN CallsResult(getTSIDsByTagFilterCalls(
             is, TagFilterInit(name, key.val, value.val, n.op # "EQREGEX", TRUE)), tsids)
    ELSE IF value.t = "varref"
    THEN CallsResult(seriesByBinaryExprVarRefCalls(is, name, key.val, value.val), tsids)
    ELSE allTSIDsCalls(is, name, tsids)

\* r, with the calls before put in front of its calls
After(before, r) == CallsResult(before \o r.calls, r.tsids)

\* seriesByExprIterator, the AND and OR cases once both sides returned l
\* and r: seriesByAllIdsIterator is called for an AND of two field
\* expressions and for an OR with a field expression
combineIteratorsCalls(is, name, expr, tsids, l, r) ==
    IF \/ expr.op = "AND" /\ l.err = "ErrFieldExpr" /\ r.err = "ErrFieldExpr"
       \/ expr.op = "OR" /\ (l.err = "ErrFieldExpr" \/ r.err = "ErrFieldExpr")
    THEN allTSIDsCalls(is, name, tsids)
    ELSE CallsResult(<<>>, tsids)

\* seriesByExprIterator(name, expr, tr, tsids, singleSeries)
RECURSIVE seriesByExprIteratorCalls(_, _, _, _, _)
\* the AND and OR cases after the right side made the calls of rc and
\* returned r
bothSidesCalls(is, name, expr, l, rc, r) ==
    IF r.err \notin {"nil", "ErrFieldExpr"} THEN rc
    ELSE After(rc.calls, combineIteratorsCalls(is, name, expr, rc.tsids, l, r))
\* the AND and OR cases after the left side made the calls of lc and
\* returned l
rightSideCalls(is, name, expr, singleSeries, lc, l) ==
    IF l.err \notin {"nil", "ErrFieldExpr"} THEN lc
    ELSE After(lc.calls,
               bothSidesCalls(is, name, expr, l,
                   seriesByExprIteratorCalls(is, name, expr.rhs, lc.tsids, singleSeries),
                   seriesByExprIterator(is, name, expr.rhs, lc.tsids, singleSeries)))
seriesByExprIteratorCalls(is, name, expr, tsids, singleSeries) ==
    CASE expr.t = "nil" -> allTSIDsCalls(is, name, tsids)
      [] expr.t = "binary" /\ expr.op \in {"AND", "OR"} ->
            rightSideCalls(is, name, expr, singleSeries,
                seriesByExprIteratorCalls(is, name, expr.lhs, tsids, singleSeries),
                seriesByExprIterator(is, name, expr.lhs, tsids, singleSeries))
      [] expr.t = "binary" /\ expr.op \notin {"AND", "OR"} ->
            seriesByBinaryExprCalls(is, name, expr, tsids, singleSeries)
      [] expr.t = "paren" ->
            seriesByExprIteratorCalls(is, name, expr.expr, tsids, singleSeries)
      [] expr.t = "bool" ->
            IF expr.val THEN allTSIDsCalls(is, name, tsids)
            ELSE CallsResult(<<>>, tsids)
      [] OTHER -> CallsResult(<<>>, tsids)

\* measurementSeriesByExprIterator after seriesByExprIterator made the
\* calls of c and returned r
deferredCalls(is, name, c, r) ==
    IF r.err = "ErrFieldExpr" THEN After(c.calls, allTSIDsCalls(is, name, c.tsids))
    ELSE c

\* measurementSeriesByExprIterator(name, expr, tr, singleSeries, tsid)
measurementSeriesByExprIteratorCalls(is, name, expr, singleSeries, tsid) ==
    IF containsMeasurement(is, name).err # "nil" \/ ~containsMeasurement(is, name).ok
    THEN <<>>
    ELSE deferredCalls(is, name,
             seriesByExprIteratorCalls(is, name, expr,
                 IF singleSeries THEN NewSet({tsid}) ELSE NilSet, singleSeries),
             seriesByExprIterator(is, name, expr,
                 IF singleSeries THEN NewSet({tsid}) ELSE NilSet, singleSeries)).calls

(***************************************************************************)
(* TagSetInfo and GroupSeries: the grouped series of a query.  A           *)
(* TagSetInfo holds four parallel sequences; a GroupSeries is a sequence   *)
(* of TagSetInfo objects.                                                  *)
(***************************************************************************)
\* a TagSetInfo as setPool.get() returns it, with group key k
EmptyTagSetInfo(k) ==
    [ref |-> 0, IDs |-> <<>>, Filters |-> <<>>, SeriesKeys |-> <<>>,
     TagsVec |-> <<>>, key |-> k]

\* TagSetInfo.Len, TagSetInfo.Less
TagSetInfoLen(t) == Len(t.IDs)
TagSetInfoLess(t, i, j) == LexLess(t.SeriesKeys[i], t.SeriesKeys[j])

\* exchange of the elements i and j of a slice
SwapElems(s, i, j) == [s EXCEPT ![i] = s[j], ![j] = s[i]]

\* faulty variant of TagSetInfo.Swap: the filters stay where they are
TagSetInfoSwapNoFilters(t, i, j) ==
    [t EXCEPT !.SeriesKeys = SwapElems(@, i, j),
              !.IDs = SwapElems(@, i, j),
              !.TagsVec = SwapElems(@, i, j)]

\* TagSetInfo.Swap(i, j)
TagSetInfoSwap(t, i, j) ==
    [t EXCEPT !.SeriesKeys = SwapElems(@, i, j),
              !.IDs = SwapElems(@, i, j),
              !.TagsVec = SwapElems(@, i, j),
              !.Filters = SwapElems(@, i, j)]

\* TagSetInfo.Append(id, seriesKey, filter, tags)
TagSetInfoAppend(t, id, seriesKey, filter, tags) ==
    [t EXCEPT !.IDs = Append(@, id),
              !.Filters = Append(@, filter),
              !.TagsVec = Append(@, tags),
              !.SeriesKeys = Append(@, seriesKey)]

\* sort.Sort(t) on a short slice is an insertion sort made of Less and Swap:
\* "for j := i; j > a && data.Less(j, j-1); j-- { data.Swap(j, j-1) }"
RECURSIVE TagSetInsert(_, _)
TagSetInsert(t, j) ==
    IF j > 1 /\ TagSetInfoLess(t, j, j - 1)
    THEN TagSetInsert(TagSetInfoSwap(t, j, j - 1), j - 1)
    ELSE t
RECURSIVE TagSetSortFrom(_, _)
TagSetSortFrom(t, i) ==
    IF i > TagSetInfoLen(t) THEN t ELSE TagSetSortFrom(TagSetInsert(t, i), i + 1)
SortTagSetInfo(t) == TagSetSortFrom(t, 2)

\* GroupSeries.Less, GroupSeries.Swap
GroupSeriesLess(g, i, j) == LexLess(g[i].key, g[j].key)
GroupSeriesSwap(g, i, j) == SwapElems(g, i, j)

\* sort.Sort(sort.Reverse(gs)): the same insertion sort with Less(j, i) for
\* Less(i, j)
RECURSIVE GroupInsert(_, _)
GroupInsert(g, j) ==
    IF j > 1 /\ GroupSeriesLess(g, j - 1, j)
    THEN GroupInsert(GroupSeriesSwap(g, j, j - 1), j - 1)
    ELSE g
RECURSIVE GroupSortFrom(_, _)
GroupSortFrom(g, i) ==
    IF i > Len(g) THEN g ELSE GroupSortFrom(GroupInsert(g, i), i + 1)

\* the loop "for i, j := 0, tt.Len()-1; i < j; i, j = i+1, j-1" of Reverse
\* on one slice
ReverseSlice(s) == [i \in 1..Len(s) |-> s[Len(s) + 1 - i]]

\* GroupSeries.Reverse()
GroupSeriesReverse(g) ==
    [x \in 1..Len(g) |->
        [GroupSortFrom(g, 2)[x] EXCEPT !.IDs = ReverseSlice(@),
                                       !.Filters = ReverseSlice(@),
                                       !.SeriesKeys = ReverseSlice(@),
                                       !.TagsVec = ReverseSlice(@)]]

\* atomic.AddInt64(&t.ref, delta): the new value
AddInt64(ref, delta) == ref + delta

\* faulty variant of unrefReleases: the release starts one reference early
unrefReleasesEarly(newRef) == newRef <= 1

\* TagSetInfo.Unref: "if atomic.AddInt64(&t.ref, -1) == 0 { t.release() }"
unrefReleases(newRef) == newRef = 0

\* faulty variant of TagSetInfoReset: the group key stays
TagSetInfoResetKeepsKey(t) ==
    [t EXCEPT !.ref = 0, !.IDs = <<>>, !.Filters = <<>>, !.TagsVec = <<>>,
              !.SeriesKeys = <<>>]

\* TagSetInfo.reset()
TagSetInfoReset(t) ==
    [t EXCEPT !.ref = 0, !.key = <<>>, !.IDs = <<>>, !.Filters = <<>>,
              !.TagsVec = <<>>, !.SeriesKeys = <<>>]

\* a holder: where it is ("idle": no reference taken, "held", "releasing":
\* its Unref saw zero, "putting": its release has reset the object,
\* "released": its release is done, "dropped": its Unref saw no zero) and
\* whether it took its reference after the count had come back to zero
Holder(at, late) == [at |-> at, late |-> late]

(***************************************************************************)
(* The read cache: pages in a current and an old buffer.  A buffer maps    *)
(* keys to CachePage objects and counts the bytes of its pages.  A         *)
(* CachePage is an object on the heap; what Get returns is the object of  *)
(* the current buffer itself, not a copy of it.                            *)
(***************************************************************************)
\* ReadCacheInstance.CreatCacheKey(path, offset)
CreatCacheKey(path, offset) == <<path, offset>>

\* a buffer without pages
EmptyBuffer == [pages |-> [k \in {} |-> 0], byteSize |-> 0]
EmptyReadCache == [currBuffer |-> EmptyBuffer, oldBuffer |-> EmptyBuffer]

\* the bytes of a page: its own array, or the array of a slice it shares
OwnBytes(b) == [slice |-> 0, bytes |-> b]
SharedBytes(id) == [slice |-> id, bytes |-> <<>>]
CachePage(value, size) == [Value |-> value, Size |-> size]
\* page.Value of the CachePage with id p
PageValue(hp, p) ==
    IF hp.pages[p].Value.slice = 0 THEN hp.pages[p].Value.bytes
    ELSE hp.slices[hp.pages[p].Value.slice]
PageSizeOf(hp, p) == hp.pages[p].Size

\* the id of a new object
NewPageId(hp) ==
    CHOOSE n \in 1..(Cardinality(DOMAIN hp.pages) + 1) : n \notin DOMAIN hp.pages

\* a function with one more pair, and one restricted to the keys in S
WithPair(f, k, v) == [x \in DOMAIN f \cup {k} |-> IF x = k THEN v ELSE f[x]]
Restrict(f, S) == [x \in DOMAIN f \cap S |-> f[x]]

\* the heap after the objects no buffer and no user refers to are collected
Collect(rc, hp, handle) ==
    [hp EXCEPT !.pages =
        Restrict(@, {rc.currBuffer.pages[k] : k \in DOMAIN rc.currBuffer.pages}
                    \cup {rc.oldBuffer.pages[k] : k \in DOMAIN rc.oldBuffer.pages}
                    \cup {handle})]

\* the sum of the sizes of the pages with the keys in S
RECURSIVE SumSizes(_, _, _)
SumSizes(hp, pages, S) ==
    IF S = {} THEN 0
    ELSE LET k == CHOOSE x \in S : TRUE
         IN PageSizeOf(hp, pages[k]) + SumSizes(hp, pages, S \ {k})

\* a result of an operation of the cache: the cache, the heap, what Get or
\* Remove returned
CacheResult(rc, hp, page, hit) == [rc |-> rc, hp |-> hp, page |-> page, hit |-> hit]

\* faulty variant of AddPage: a page added again is counted as a new one
AddPageNoReplace(rc, hp, key, slice, size) ==
    IF key \in DOMAIN rc.currBuffer.pages
    THEN CacheResult(
             [rc EXCEPT !.currBuffer.byteSize = @ + size],
             [hp EXCEPT !.pages[rc.currBuffer.pages[key]] =
                            CachePage(OwnBytes(hp.slices[slice]), size)],
             0, FALSE)
    ELSE CacheResult(
             [rc EXCEPT !.currBuffer.pages = WithPair(@, key, NewPageId(hp)),
                        !.currBuffer.byteSize = @ + size],
             [hp EXCEPT !.pages = WithPair(@, NewPageId(hp),
                                           CachePage(OwnBytes(hp.slices[slice]), size))],
             0, FALSE)

\* faulty variant of AddPage: the page keeps the caller's slice
AddPageNoCopy(rc, hp, key, slice, size) ==
    IF key \in DOMAIN rc.currBuffer.pages
    THEN CacheResult(
             [rc EXCEPT !.currBuffer.byteSize =
                            @ - PageSizeOf(hp, rc.currBuffer.pages[key]) + size],
             [hp EXCEPT !.pages[rc.currBuffer.pages[key]] =
                            CachePage(SharedBytes(slice), size)],
             0, FALSE)
    ELSE CacheResult(
             [rc EXCEPT !.currBuffer.pages = WithPair(@, key, NewPageId(hp)),
                        !.currBuffer.byteSize = @ + size],
             [hp EXCEPT !.pages = WithPair(@, NewPageId(hp),
                                           CachePage(SharedBytes(slice), size))],
             0, FALSE)

\* ReadCacheInstance.AddPage(key, value, size): the page of key in the
\* current buffer takes a copy of value, in place when the key is there
AddPage(rc, hp, key, slice, size) ==
    IF key \in DOMAIN rc.currBuffer.pages
    THEN CacheResult(
             [rc EXCEPT !.currBuffer.byteSize =
                            @ - PageSizeOf(hp, rc.currBuffer.pages[key]) + size],
             [hp EXCEPT !.pages[rc.currBuffer.pages[key]] =
                            CachePage(OwnBytes(hp.slices[slice]), size)],
             0, FALSE)
    ELSE CacheResult(
             [rc EXCEPT !.currBuffer.pages = WithPair(@, key, NewPageId(hp)),
                        !.currBuffer.byteSize = @ + size],
             [hp EXCEPT !.pages = WithPair(@, NewPageId(hp),
                                           CachePage(OwnBytes(hp.slices[slice]), size))],
             0, FALSE)

\* faulty variant of Get: the old buffer is looked at first, so a page
\* found there is copied into the current buffer each time
GetOldFirst(rc, hp, key) ==
    IF key \in DOMAIN rc.oldBuffer.pages
    THEN CacheResult(
             [rc EXCEPT !.currBuffer.pages = WithPair(@, key, NewPageId(hp)),
                        !.currBuffer.byteSize =
                            @ + PageSizeOf(hp, rc.oldBuffer.pages[key])],
             [hp EXCEPT !.pages = WithPair(@, NewPageId(hp),
                                           hp.pages[rc.oldBuffer.pages[key]])],
             NewPageId(hp), TRUE)
    ELSE IF key \in DOMAIN rc.currBuffer.pages
    THEN CacheResult(rc, hp, rc.currBuffer.pages[key], TRUE)
    ELSE CacheResult(rc, hp, 0, FALSE)

\* ReadCacheInstance.Get(key): the page of the current buffer, or a copy of
\* the page of the old buffer, which is put into the current buffer
Get(rc, hp, key) ==
    IF key \in DOMAIN rc.currBuffer.pages
    THEN CacheResult(rc, hp, rc.currBuffer.pages[key], TRUE)
    ELSE IF key \in DOMAIN rc.oldBuffer.pages
    THEN CacheResult(
             [rc EXCEPT !.currBuffer.pages = WithPair(@, key, NewPageId(hp)),
                        !.currBuffer.byteSize =
                            @ + PageSizeOf(hp, rc.oldBuffer.pages[key])],
             [hp EXCEPT !.pages = WithPair(@, NewPageId(hp),
                                           hp.pages[rc.oldBuffer.pages[key]])],
             NewPageId(hp), TRUE)
    ELSE CacheResult(rc, hp, 0, FALSE)

\* ReadCacheInstance.RefreshOldBuffer(): the current buffer becomes the old
\* one, the current one starts empty
RefreshOldBuffer(rc) == [currBuffer |-> EmptyBuffer, oldBuffer |-> rc.currBuffer]

\* a buffer without the pages of path
RemoveFromBuffer(hp, b, path) ==
    [pages |-> Restrict(b.pages, {k \in DOMAIN b.pages : k[1] # path}),
     byteSize |-> b.byteSize
                  - SumSizes(hp, b.pages, {k \in DOMAIN b.pages : k[1] = path})]

\* faulty variant of Remove: the old buffer keeps its pages
RemoveCurrentOnly(rc, hp, path) ==
    CacheResult([rc EXCEPT !.currBuffer = RemoveFromBuffer(hp, @, path)],
                hp, 0,
                \E k \in DOMAIN rc.currBuffer.pages \cup DOMAIN rc.oldBuffer.pages :
                    k[1] = path)

\* ReadCacheInstance.Remove(path): true when a page of path was cached
Remove(rc, hp, path) ==
    CacheResult([currBuffer |-> RemoveFromBuffer(hp, rc.currBuffer, path),
                 oldBuffer |-> RemoveFromBuffer(hp, rc.oldBuffer, path)],
                hp, 0,
                \E k \in DOMAIN rc.currBuffer.pages \cup DOMAIN rc.oldBuffer.pages :
                    k[1] = path)

\* ReadCacheInstance.Purge()
Purge(rc) == EmptyReadCache

\* ReadCacheInstance.GetPageSize(), GetByteSize(), Contains(key)
GetPageSize(rc) ==
    Cardinality(DOMAIN rc.currBuffer.pages) + Cardinality(DOMAIN rc.oldBuffer.pages)
GetByteSize(rc) == rc.currBuffer.byteSize + rc.oldBuffer.byteSize
Contains(rc, key) ==
    key \in DOMAIN rc.currBuffer.pages \cup DOMAIN rc.oldBuffer.pages

(***************************************************************************)
(* The datasets and the queries of the model.                              *)
(***************************************************************************)
\* A kind of series: its measurement and its tags.  Every series of a
\* dataset also carries tag n with its own number, so that no two series
\* have the same series key.
Kind(m, tags) == [mst |-> m, tags |-> tags]

\* dataset family 1: host takes the values a and b; a series of cpu without
\* tag host
ChoicesAB ==
    <<Kind(Cpu, Tag1(Host, ValA)), Kind(Cpu, Tag1(Host, ValB)),
      Kind(Cpu, Tag1(Dc, ValX))>>

\* dataset family 2: host takes the values a1, a2 and b1; a series with tag dc too
ChoicesA1A2B1 ==
    <<Kind(Cpu, Tag2(Host, ValA1, Dc, ValX)), Kind(Cpu, Tag1(Host, ValA2)),
      Kind(Cpu, Tag1(Host, ValB1))>>

\* dataset family 3: a value that is a byte prefix of another; a series of
\* another measurement
ChoicesPrefix ==
    <<Kind(Cpu, Tag1(Host, ValA)), Kind(Cpu, Tag1(Host, ValA1)),
      Kind(Mem, Tag1(Host, ValA))>>

DatasetFamilies == {ChoicesAB, ChoicesA1A2B1, ChoicesPrefix}

\* the row capacities under which the rows of a dataset were merged: single
\* TSID rows, half full rows, full rows
RowCaps == {1, MaxTSIDsPerRow \div 2, MaxTSIDsPerRow}

\* the assignments of series to TSIDs: TSIDs are allocated in ascending
\* order, the series of one kind one after the other
Monotone(g) == \A i, j \in DOMAIN g : i < j => g[i] <= g[j]
WithTag(tags, k, v) ==
    [x \in DOMAIN tags \cup {k} |-> IF x = k THEN v ELSE tags[x]]
Datasets(choices) ==
    {[t \in TSIDs |->
        Series(choices[g[t]].mst, WithTag(choices[g[t]].tags, SeriesNo, ValNo(t)), 0)] :
        g \in {h \in [TSIDs -> 1..Len(choices)] : Monotone(h)}}

TagEq(k, v) == BinaryExpr("EQ", VarRef(k, "tag"), StringLiteral(v))
TagNeq(k, v) == BinaryExpr("NEQ", VarRef(k, "tag"), StringLiteral(v))
TagRegex(k, re) == BinaryExpr("EQREGEX", VarRef(k, "tag"), RegexLiteral(re))
FieldGt(f, n) == BinaryExpr("GT", VarRef(f, "field"), NumberLiteral(n))
And(x, y) == BinaryExpr("AND", x, y)
Or(x, y) == BinaryExpr("OR", x, y)

\* /^a.*/
RePrefixA == Regex("prefix", <<ValA>>)

LeftPreds == {TagEq(Host, ValA), TagNeq(Host, ValA), TagRegex(Host, RePrefixA)}
RightPreds == {TagEq(Host, ValB), TagEq(Dc, ValX)}
TagPreds == LeftPreds \cup RightPreds \cup {TagEq(Host, ValA1), TagEq(Host, ValA2)}
BoolLits == {BooleanLiteral(TRUE), BooleanLiteral(FALSE)}

\* the predicate trees of the queries
Exprs ==
    {NilExpr} \cup TagPreds \cup BoolLits \cup {FieldGt(Usage, 1)}
    \cup {ParenExpr(x) : x \in {TagEq(Host, ValA)}}
    \cup {And(x, y) : x \in LeftPreds, y \in RightPreds}
    \cup {Or(x, y) : x \in LeftPreds, y \in RightPreds}
    \cup {Or(TagEq(Host, ValA1), TagEq(Host, ValA2))}
    \cup {And(Or(x, y), x) : x \in LeftPreds, y \in RightPreds}
    \cup {Or(x, And(x, y)) : x \in LeftPreds, y \in RightPreds}
    \cup {And(b, x) : b \in BoolLits, x \in LeftPreds}
    \cup {Or(b, x) : b \in BoolLits, x \in LeftPreds}
    \cup {And(x, b) : b \in BoolLits, x \in LeftPreds}
    \cup {Or(And(BooleanLiteral(FALSE), x), y) : x \in LeftPreds, y \in {TagEq(Host, ValB)}}

\* the (measurement, predicate) pairs of the queries
Queries ==
    ({Cpu} \X Exprs) \cup ({Mem, Disk} \X {NilExpr, TagEq(Host, ValA)})

\* the tag filters of the direct filter searches: (key, value, isNegative, isRegexp)
FilterArgs ==
    ({Host} \X {ValA, ValB, ValA1} \X BOOLEAN \X {FALSE})
    \cup ({Dc} \X {ValX} \X BOOLEAN \X {FALSE})
    \cup ({Host} \X {RePrefixA, ReAny} \X BOOLEAN \X {TRUE})

\* the literal values of the fast and slow path searches
PathArgs == ({Host} \X {ValA, ValB, ValA1, ValA2}) \cup ({Dc} \X {ValX})

\* the predicate trees of the iterator path: field comparisons bare, in
\* parentheses and under AND and OR, tag comparisons, boolean literals, a
\* comparison of two tags and a comparison over a nested binary expression
\* /^(a|b)$/ and the negated regular expression match
ReAOrB == Regex("alt", <<ValA, ValB>>)
TagNotRegex(k, re) == BinaryExpr("NEQREGEX", VarRef(k, "tag"), RegexLiteral(re))
FieldPred == FieldGt(Usage, 1)
\* (usage + 1) > 1
NestedCmp ==
    BinaryExpr("GT", BinaryExpr("ADD", VarRef(Usage, "field"), NumberLiteral(1)),
               NumberLiteral(1))
HostIsA == TagEq(Host, ValA)
IterExprs ==
    {NilExpr, FieldPred, ParenExpr(FieldPred), ParenExpr(ParenExpr(FieldPred)),
     HostIsA, TagNeq(Host, ValA), TagRegex(Host, RePrefixA), ParenExpr(HostIsA),
     BooleanLiteral(TRUE), BooleanLiteral(FALSE),
     And(FieldPred, HostIsA), And(HostIsA, FieldPred), And(FieldPred, FieldPred),
     Or(FieldPred, HostIsA), Or(HostIsA, FieldPred), Or(FieldPred, FieldPred),
     And(FieldPred, BooleanLiteral(FALSE)), And(BooleanLiteral(FALSE), FieldPred),
     And(FieldPred, BooleanLiteral(TRUE)), Or(FieldPred, BooleanLiteral(FALSE)),
     And(ParenExpr(FieldPred), HostIsA), ParenExpr(And(FieldPred, HostIsA)),
     And(And(FieldPred, HostIsA), FieldPred),
     And(HostIsA, TagEq(Dc, ValX)), Or(HostIsA, TagEq(Host, ValB)),
     BinaryExpr("EQ", VarRef(Host, "tag"), VarRef(Dc, "tag")),
     BinaryExpr("NEQ", VarRef(Host, "tag"), VarRef(Dc, "tag")),
     NestedCmp,
     And(FieldPred, TagNeq(Host, ValA)), Or(TagNeq(Host, ValA), FieldPred),
     Or(ParenExpr(FieldPred), HostIsA),
     And(FieldPred, FieldGt(Usage, 2)), Or(FieldGt(Usage, 2), ParenExpr(FieldPred)),
     And(And(FieldPred, FieldGt(Usage, 2)), Or(FieldPred, FieldGt(Usage, 2))),
     TagNotRegex(Host, RePrefixA), TagRegex(Host, ReAOrB), TagNotRegex(Host, ReAOrB),
     Or(HostIsA, NestedCmp), And(HostIsA, NestedCmp),
     And(TagNeq(Host, ValA), TagEq(Dc, ValX)),
     Or(TagNotRegex(Host, RePrefixA), ParenExpr(And(HostIsA, TagEq(Dc, ValX))))}

\* the calls of measurementSeriesByExprIterator: (name, expr, singleSeries, tsid)
IterQueries ==
    ({Cpu, Disk} \X IterExprs \X {FALSE} \X {0})
    \cup ({Cpu} \X IterExprs \X {TRUE} \X {1})

(***************************************************************************)
(* The state machine.                                                      *)
(***************************************************************************)
\* no TagSetInfo is in use, and no read cache
NoTagSets == gs = <<>> /\ setPool = <<>> /\ holders = <<>>
NoCache == readCache = <<>> /\ heap = <<>> /\ client = <<>>
\* no compactor, no UUID generator and no configuration
NoServices == compWorker = <<>> /\ uuidGen = <<>> /\ spdyCfg = <<>>

IS == IndexSearch(tbl, tsFail)
NoRet == [op |-> "none"]

\* the index after the series of a dataset were written and merged into
\* rows of at most cap TSIDs; nothing deleted, no query running
Init ==
    /\ \E choices \in DatasetFamilies :
       \E d \in Datasets(choices) :
       \E cap \in RowCaps :
           /\ series = d
           /\ tbl = BuildTable(d, cap)
    /\ tsFail = 0
    /\ deletedTSIDs = {}
    /\ versions = [m \in {Cpu} |-> 0]
    /\ pc = "idle"
    /\ ret = NoRet
    /\ NoTagSets
    /\ NoCache
    /\ NoServices

\* the index builder tombstones a series
DeleteTSID ==
    /\ pc = "idle"
    /\ Cardinality(deletedTSIDs) < MaxDeleted
    /\ \E t \in DOMAIN series \ deletedTSIDs : deletedTSIDs' = deletedTSIDs \cup {t}
    /\ UNCHANGED <<tagSetVars, cacheVars, serviceVars, series, tbl, tsFail, versions, pc, ret>>

\* a caller runs indexSearch.searchTSIDs(name, expr, tr)
SearchTSIDs ==
    /\ pc = "idle"
    /\ \E q \in Queries :
         \E r \in {searchTSIDs(IS, q[1], q[2], deletedTSIDs)} :
           /\ ret' = [op |-> "searchTSIDs", name |-> q[1], expr |-> q[2],
                      list |-> r.list, err |-> r.err]
           /\ deletedTSIDs' = r.deleted
    /\ pc' = "done"
    /\ UNCHANGED <<tagSetVars, cacheVars, serviceVars, series, tbl, tsFail, versions>>

\* a caller runs indexSearch.getTSIDsByTagFilter(tf) on a compiled filter
GetTSIDsByTagFilter ==
    /\ pc = "idle"
    /\ \E a \in FilterArgs :
         LET tf == TagFilterInit(Cpu, a[1], a[2], a[3], a[4])
             r == getTSIDsByTagFilter(IS, tf)
         IN ret' = [op |-> "getTSIDsByTagFilter", tf |-> tf,
                    set |-> r.set, err |-> r.err]
    /\ pc' = "done"
    /\ UNCHANGED <<tagSetVars, cacheVars, serviceVars, series, tbl, tsFail, deletedTSIDs, versions>>

\* a caller runs the fast path on the literal value v of key k
FastPathSearch ==
    /\ pc = "idle"
    /\ \E a \in PathArgs :
         LET tf == TagFilterInit(Cpu, a[1], a[2], FALSE, FALSE)
             r == updateTSIDsByOrSuffixesOfTagFilter(IS, tf, {})
         IN ret' = [op |-> "fastPath", key |-> a[1], value |-> a[2],
                    tsids |-> r.tsids, err |-> r.err]
    /\ pc' = "done"
    /\ UNCHANGED <<tagSetVars, cacheVars, serviceVars, series, tbl, tsFail, deletedTSIDs, versions>>

\* a caller runs the slow path with a matcher that accepts exactly v
SlowPathSearch ==
    /\ pc = "idle"
    /\ \E a \in PathArgs :
         LET tf == [TagFilterInit(Cpu, a[1], a[2], FALSE, FALSE)
                       EXCEPT !.orSuffixes = <<>>]
             r == getTSIDsForTagFilterSlow(IS, tf, NilSet)
         IN ret' = [op |-> "slowPath", key |-> a[1], value |-> a[2],
                    tsids |-> r.tsids, err |-> r.err,
                    evals |-> r.evals, visited |-> r.visited]
    /\ pc' = "done"
    /\ UNCHANGED <<tagSetVars, cacheVars, serviceVars, series, tbl, tsFail, deletedTSIDs, versions>>

\* the regular expressions and the candidate sets of the slow scans
SlowMatchers ==
    {ReAny, RePrefixA, Regex("prefix", <<ValA1>>), Regex("prefix", <<ValB>>)}
SlowFilters == {NilSet} \cup {NewSet(F) : F \in SUBSET TSIDs}

\* a caller runs the slow path with a regular expression and a candidate set
SlowPathScan ==
    /\ pc = "idle"
    /\ \E k \in {Host, Dc}, re \in SlowMatchers, filter \in SlowFilters :
         \E r \in {getTSIDsForTagFilterSlow(IS, TagFilterInit(Cpu, k, re, FALSE, TRUE),
                                            filter)} :
           ret' = [op |-> "slowScan", tf |-> TagFilterInit(Cpu, k, re, FALSE, TRUE),
                   filter |-> filter, tsids |-> r.tsids, err |-> r.err,
                   evals |-> r.evals, visited |-> r.visited]
    /\ pc' = "done"
    /\ UNCHANGED <<tagSetVars, cacheVars, serviceVars, series, tbl, tsFail, deletedTSIDs, versions>>

\* a caller runs searchTagValuesBySingleKey with a set of eligible series
TagValuesScan ==
    /\ pc = "idle"
    /\ \E k \in {Host, Dc}, eligible \in SlowFilters :
         \E r \in {searchTagValuesBySingleKey(IS, Cpu, k, eligible, deletedTSIDs)} :
           ret' = [op |-> "tagValuesScan", key |-> k, eligible |-> eligible,
                   values |-> r.values, err |-> r.err,
                   visited |-> searchTagValuesBySingleKeyReads(IS, Cpu, k, eligible,
                                                               deletedTSIDs)]
    /\ pc' = "done"
    /\ UNCHANGED <<tagSetVars, cacheVars, serviceVars, series, tbl, tsFail, deletedTSIDs, versions>>

\* a caller runs indexSearch.getAllSeriesKeys()
GetAllSeriesKeys ==
    /\ pc = "idle"
    /\ LET r == getAllSeriesKeys(IS, deletedTSIDs, versions) IN
         /\ ret' = [op |-> "getAllSeriesKeys", keys |-> r.keys, err |-> r.err]
         /\ deletedTSIDs' = r.deleted
    /\ pc' = "done"
    /\ UNCHANGED <<tagSetVars, cacheVars, serviceVars, series, tbl, tsFail, versions>>

\* the query's indexSearch goes back to its pool
Release ==
    /\ pc = "done"
    /\ pc' = "idle"
    /\ ret' = NoRet
    /\ UNCHANGED <<tagSetVars, cacheVars, serviceVars, series, tbl, tsFail, deletedTSIDs, versions>>

\* the index builder advances the current version of a measurement
AdvanceVersion ==
    /\ pc = "idle"
    /\ \E m \in DOMAIN versions :
         /\ versions[m] < MaxVersion
         /\ versions' = [versions EXCEPT ![m] = @ + 1]
    /\ UNCHANGED <<tagSetVars, cacheVars, serviceVars, series, tbl, tsFail, deletedTSIDs, pc, ret>>

\* predicate searches over an index with tombstones
Next ==
    \/ DeleteTSID
    \/ SearchTSIDs
    \/ GetAllSeriesKeys
    \/ Release

Spec == Init /\ [][Next]_vars

\* tag filter searches and the two scan paths
NextFilter ==
    \/ GetTSIDsByTagFilter
    \/ FastPathSearch
    \/ SlowPathSearch
    \/ SlowPathScan
    \/ TagValuesScan
    \/ Release

SpecFilter == Init /\ [][NextFilter]_vars

\* the index of the iterator searches: the series of one dataset family
InitIter ==
    /\ \E d \in Datasets(ChoicesAB) :
       \E cap \in RowCaps :
           /\ series = d
           /\ tbl = BuildTable(d, cap)
    /\ tsFail = 0
    /\ deletedTSIDs = {}
    /\ versions = [m \in {Cpu} |-> 0]
    /\ pc = "idle"
    /\ ret = NoRet
    /\ NoTagSets
    /\ NoCache
    /\ NoServices

\* the storage under the table starts to fail: from its item number n on,
\* the cursor of every search stops with an error
CursorFault ==
    /\ pc = "idle"
    /\ tsFail = 0
    /\ \E n \in 1..Len(tbl) : tsFail' = n
    /\ UNCHANGED <<tagSetVars, cacheVars, serviceVars, series, tbl, deletedTSIDs, versions, pc, ret>>

\* a caller runs indexSearch.measurementSeriesByExprIterator
MeasurementSeriesByExprIterator ==
    /\ pc = "idle"
    /\ \E q \in IterQueries :
       \E r \in {measurementSeriesByExprIterator(IS, q[1], q[2], q[3], q[4])} :
           ret' = [op |-> "measurementSeriesByExprIterator", name |-> q[1],
                   expr |-> q[2], singleSeries |-> q[3], tsid |-> q[4],
                   itr |-> r.itr, err |-> r.err,
                   calls |-> measurementSeriesByExprIteratorCalls(
                                 IS, q[1], q[2], q[3], q[4])]
    /\ pc' = "done"
    /\ UNCHANGED <<tagSetVars, cacheVars, serviceVars, series, tbl, tsFail, deletedTSIDs, versions>>

\* a caller runs indexSearch.searchTSIDs on a predicate tree of the
\* iterator path
SearchTSIDsByExpr ==
    /\ pc = "idle"
    /\ \E name \in {Cpu, Disk} :
       \E expr \in IterExprs :
       \E r \in {searchTSIDs(IS, name, expr, deletedTSIDs)} :
           /\ ret' = [op |-> "searchTSIDs", name |-> name, expr |-> expr,
                      list |-> r.list, err |-> r.err,
                      calls |-> searchTSIDsCalls(IS, name, expr)]
           /\ deletedTSIDs' = r.deleted
    /\ pc' = "done"
    /\ UNCHANGED <<tagSetVars, cacheVars, serviceVars, series, tbl, tsFail, versions>>

\* a caller runs indexSearch.searchTagValues for the tag keys host and dc
SearchTagValues ==
    /\ pc = "idle"
    /\ \E expr \in IterExprs :
       \E r \in {searchTagValues(IS, Cpu, <<Host, Dc>>, expr, deletedTSIDs)} :
           ret' = [op |-> "searchTagValues", name |-> Cpu, expr |-> expr,
                   result |-> r.result, err |-> r.err,
                   calls |-> searchTagValuesCalls(IS, Cpu, expr)]
    /\ pc' = "done"
    /\ UNCHANGED <<tagSetVars, cacheVars, serviceVars, series, tbl, tsFail, deletedTSIDs, versions>>

\* searches over an index whose storage may fail
NextIter ==
    \/ CursorFault
    \/ MeasurementSeriesByExprIterator
    \/ SearchTSIDsByExpr
    \/ SearchTagValues
    \/ Release

SpecIter == InitIter /\ [][NextIter]_vars

\* the tag keys and the conditions of the tag value queries: no condition,
\* one series, the series of a value, a value no series has, a field
\* comparison
ValueKeys == {<<Host, Dc>>, <<Dc, Host>>, <<Host>>}
ValueConditions ==
    {NilExpr, TagEq(SeriesNo, ValNo(1)), TagEq(SeriesNo, ValNo(MaxTSID)),
     HostIsA, TagNeq(Host, ValA), TagEq(Host, ValB1), FieldPred,
     Or(TagEq(SeriesNo, ValNo(1)), TagEq(SeriesNo, ValNo(MaxTSID)))}

\* a caller runs indexSearch.searchTagValues(name, tagKeys, condition)
SearchTagValuesOfKeys ==
    /\ pc = "idle"
    /\ \E keys \in ValueKeys, cond \in ValueConditions :
       \E r \in {searchTagValues(IS, Cpu, keys, cond, deletedTSIDs)} :
           ret' = [op |-> "searchTagValues", name |-> Cpu, tagKeys |-> keys,
                   expr |-> cond, result |-> r.result, err |-> r.err]
    /\ pc' = "done"
    /\ UNCHANGED <<tagSetVars, cacheVars, serviceVars, series, tbl, tsFail, deletedTSIDs, versions>>

\* tag value queries over an index with tombstones
NextValues ==
    \/ DeleteTSID
    \/ SearchTagValuesOfKeys
    \/ Release

SpecValues == Init /\ [][NextValues]_vars

\* a tag->TSIDs row of cpu, host = b that lost its end: no separator after
\* the value and no TSID list
CorruptRow ==
    marshalTagValue(MarshalCommonPrefix(<<>>, nsPrefixTagToTSIDs),
                    marshalCompositeTagKey(<<>>, Cpu, Host)) \o ValB

\* the series keys of the point lookups: the stored ones and one never written
LookupKeys ==
    {SeriesKey(series[t]) : t \in DOMAIN series}
    \cup {SeriesKey(Series(Disk, Tag1(Host, ValA), 0))}

\* the scan prefixes of getSeriesCount: all tag key rows of cpu, host and of
\* mem, host
CountPrefixes ==
    {marshalTagValue(<<nsPrefixTagToTSIDs>>, marshalCompositeTagKey(<<>>, m, Host)) :
        m \in {Cpu, Mem}}

\* the index of the scans: all three kinds of rows, and possibly a damaged row
InitScan ==
    /\ \E d \in Datasets(ChoicesAB) :
       \E cap \in RowCaps :
       \E damaged \in {{}, {CorruptRow}} :
           /\ series = d
           /\ tbl = SortItems(TagRows(d, cap) \cup KeyRows(d)
                              \cup KeyToTSIDRows(d) \cup damaged)
    /\ tsFail = 0
    /\ deletedTSIDs = {}
    /\ versions = [m \in {Cpu} |-> 0]
    /\ pc = "idle"
    /\ ret = NoRet
    /\ NoTagSets
    /\ NoCache
    /\ NoServices

\* a caller runs indexSearch.getTSIDBySeriesKey(indexkey)
GetTSIDBySeriesKey ==
    /\ pc = "idle"
    /\ \E k \in LookupKeys :
       \E r \in {getTSIDBySeriesKey(IS, k)} :
           ret' = [op |-> "getTSIDBySeriesKey", key |-> k,
                   tsid |-> r.v, err |-> r.err, prefix |-> r.prefix]
    /\ pc' = "done"
    /\ UNCHANGED <<tagSetVars, cacheVars, serviceVars, series, tbl, tsFail, deletedTSIDs, versions>>

\* a caller runs indexSearch.searchSeriesKey(nil, tsid)
SearchSeriesKey ==
    /\ pc = "idle"
    /\ \E t \in 1..(MaxTSID + 1) :
       \E r \in {searchSeriesKey(IS, <<>>, t)} :
           ret' = [op |-> "searchSeriesKey", tsid |-> t,
                   key |-> r.v, err |-> r.err, prefix |-> r.prefix]
    /\ pc' = "done"
    /\ UNCHANGED <<tagSetVars, cacheVars, serviceVars, series, tbl, tsFail, deletedTSIDs, versions>>

\* a caller runs indexSearch.containsMeasurement(name)
ContainsMeasurement ==
    /\ pc = "idle"
    /\ \E name \in {Cpu, Mem, Disk} :
       \E r \in {containsMeasurement(IS, name)} :
           ret' = [op |-> "containsMeasurement", name |-> name,
                   ok |-> r.ok, err |-> r.err]
    /\ pc' = "done"
    /\ UNCHANGED <<tagSetVars, cacheVars, serviceVars, series, tbl, tsFail, deletedTSIDs, versions>>

\* a caller runs indexSearch.getSeriesCount(prefix)
GetSeriesCount ==
    /\ pc = "idle"
    /\ \E prefix \in CountPrefixes :
       \E r \in {getSeriesCount(IS, prefix)} :
           ret' = [op |-> "getSeriesCount", prefix |-> prefix,
                   count |-> r.count, err |-> r.err]
    /\ pc' = "done"
    /\ UNCHANGED <<tagSetVars, cacheVars, serviceVars, series, tbl, tsFail, deletedTSIDs, versions>>

\* a caller runs indexSearch.getTSIDsByMeasurementName(name), which scans
\* with updateTSIDsForPrefix
GetTSIDsByMeasurementName ==
    /\ pc = "idle"
    /\ \E name \in {Cpu, Mem} :
       \E r \in {getTSIDsByMeasurementName(IS, name)} :
           ret' = [op |-> "getTSIDsByMeasurementName", name |-> name,
                   set |-> r.set, err |-> r.err]
    /\ pc' = "done"
    /\ UNCHANGED <<tagSetVars, cacheVars, serviceVars, series, tbl, tsFail, deletedTSIDs, versions>>

\* a caller runs indexSearch.searchTagValuesBySingleKey(name, tagKey, nil)
SearchTagValuesBySingleKey ==
    /\ pc = "idle"
    /\ \E k \in {Host, Dc} :
       \E r \in {searchTagValuesBySingleKey(IS, Cpu, k, NilSet, deletedTSIDs)} :
           ret' = [op |-> "searchTagValuesBySingleKey", key |-> k,
                   values |-> r.values, err |-> r.err]
    /\ pc' = "done"
    /\ UNCHANGED <<tagSetVars, cacheVars, serviceVars, series, tbl, tsFail, deletedTSIDs, versions>>

\* lookups and scans over a table that may hold a damaged row and whose
\* storage may fail
NextScan ==
    \/ CursorFault
    \/ GetTSIDBySeriesKey
    \/ SearchSeriesKey
    \/ ContainsMeasurement
    \/ GetSeriesCount
    \/ GetTSIDsByMeasurementName
    \/ SearchTagValuesBySingleKey
    \/ GetTSIDsByTagFilter
    \/ FastPathSearch
    \/ SlowPathSearch
    \/ GetAllSeriesKeys
    \/ SearchTSIDs
    \/ Release

SpecScan == InitScan /\ [][NextScan]_vars

\* no index is searched
NoIndex ==
    /\ series = <<>> /\ tbl = <<>> /\ tsFail = 0 /\ deletedTSIDs = {}
    /\ versions = <<>> /\ pc = "idle" /\ ret = NoRet

\* the series a query groups: TSID, encoded series key, deferred filter and
\* tags of each; two series have equal keys
GroupedIDs == 1..3
\* the series the users of the pool append
PooledIDs == {1, 2}
SeriesKeyOfID(id) == IF id = 1 THEN <<98>> ELSE <<97>>
FilterOfID(id) ==
    CASE id = 1 -> NilExpr [] id = 2 -> FieldPred [] OTHER -> FieldGt(Usage, 2)
TagsOfID(id) == Tag1(Host, ValNo(id))
GroupKeys == {<<97>>, <<98>>}

\* a query got its TagSetInfo objects from the pool, one per group
InitTagSet ==
    /\ \E k \in [1..MaxGroups -> GroupKeys] :
           gs = [g \in 1..MaxGroups |-> EmptyTagSetInfo(k[g])]
    /\ setPool = <<>>
    /\ holders = <<>>
    /\ NoIndex
    /\ NoCache
    /\ NoServices

\* the scan adds a series to a group
AppendSeries ==
    /\ \E g \in 1..Len(gs) : \E id \in GroupedIDs :
           /\ TagSetInfoLen(gs[g]) < MaxSeriesPerSet
           /\ gs' = [gs EXCEPT ![g] = TagSetInfoAppend(@, id, SeriesKeyOfID(id),
                                                       FilterOfID(id), TagsOfID(id))]
    /\ UNCHANGED <<indexVars, cacheVars, serviceVars, setPool, holders>>

\* a caller runs TagSetInfo.Swap(i, j) on a group
SwapSeries ==
    /\ \E g \in 1..Len(gs) :
       \E i \in 1..TagSetInfoLen(gs[g]) : \E j \in 1..TagSetInfoLen(gs[g]) :
           gs' = [gs EXCEPT ![g] = TagSetInfoSwap(@, i, j)]
    /\ UNCHANGED <<indexVars, cacheVars, serviceVars, setPool, holders>>

\* a caller runs sort.Sort on a group
SortSeries ==
    /\ \E g \in 1..Len(gs) : gs' = [gs EXCEPT ![g] = SortTagSetInfo(@)]
    /\ UNCHANGED <<indexVars, cacheVars, serviceVars, setPool, holders>>

\* a caller runs GroupSeries.Reverse()
ReverseGroups ==
    /\ gs' = GroupSeriesReverse(gs)
    /\ UNCHANGED <<indexVars, cacheVars, serviceVars, setPool, holders>>

\* grouping of the series of a query
NextTagSet ==
    \/ AppendSeries
    \/ SwapSeries
    \/ SortSeries
    \/ ReverseGroups

SpecTagSet == InitTagSet /\ [][NextTagSet]_vars

\* the Unref of some holder brought the count to zero
ReachedZero ==
    \E h \in DOMAIN holders : holders[h].at \in {"releasing", "putting", "released"}

\* a query filled a TagSetInfo with n series; MaxHolders components may
\* retain it
InitRef ==
    /\ \E n \in 1..MaxSeriesPerSet :
           gs = <<[SortTagSetInfo(
                     [EmptyTagSetInfo(<<97>>) EXCEPT
                         !.IDs = [i \in 1..n |-> i],
                         !.SeriesKeys = [i \in 1..n |-> SeriesKeyOfID(i)],
                         !.Filters = [i \in 1..n |-> FilterOfID(i)],
                         !.TagsVec = [i \in 1..n |-> TagsOfID(i)]]) EXCEPT !.ref = 0]>>
    /\ setPool = <<>>
    /\ holders = [h \in 1..MaxHolders |-> Holder("idle", FALSE)]
    /\ NoIndex
    /\ NoCache
    /\ NoServices

\* holder h runs TagSetInfo.Ref()
RefTagSet ==
    /\ \E h \in DOMAIN holders :
           /\ holders[h].at = "idle"
           /\ gs' = [gs EXCEPT ![1].ref = AddInt64(@, 1)]
           /\ holders' = [holders EXCEPT ![h] = Holder("held", ReachedZero)]
    /\ UNCHANGED <<indexVars, cacheVars, serviceVars, setPool>>

\* holder h runs the atomic decrement of TagSetInfo.Unref()
UnrefTagSet ==
    /\ \E h \in DOMAIN holders :
           /\ holders[h].at = "held"
           /\ gs' = [gs EXCEPT ![1].ref = AddInt64(@, -1)]
           /\ holders' = [holders EXCEPT ![h].at =
                             IF unrefReleases(AddInt64(gs[1].ref, -1))
                             THEN "releasing" ELSE "dropped"]
    /\ UNCHANGED <<indexVars, cacheVars, serviceVars, setPool>>

\* holder h runs t.reset() in TagSetInfo.release()
ReleaseReset ==
    /\ \E h \in DOMAIN holders :
           /\ holders[h].at = "releasing"
           /\ gs' = [gs EXCEPT ![1] = TagSetInfoReset(@)]
           /\ holders' = [holders EXCEPT ![h].at = "putting"]
    /\ UNCHANGED <<indexVars, cacheVars, serviceVars, setPool>>

\* holder h runs setPool.put(t) in TagSetInfo.release()
ReleasePut ==
    /\ \E h \in DOMAIN holders :
           /\ holders[h].at = "putting"
           /\ setPool' = Append(setPool, 1)
           /\ holders' = [holders EXCEPT ![h].at = "released"]
    /\ UNCHANGED <<indexVars, cacheVars, serviceVars, gs>>

\* components that retain and release one TagSetInfo
NextRef ==
    \/ RefTagSet
    \/ UnrefTagSet
    \/ ReleaseReset
    \/ ReleasePut

SpecRef == InitRef /\ [][NextRef]_vars

(***************************************************************************)
(* tagSetInfoPool: a channel of PoolCacheSize objects in front of a        *)
(* sync.Pool.  The objects are the elements of gs; setPool holds the       *)
(* channel, the sync.Pool and the objects whose reset cleared series.      *)
(***************************************************************************)
\* NewTagSetPool(), with a channel of n elements
NewTagSetPool == [cache |-> <<>>, pool |-> {}, cleared |-> {}]

\* the TagSetInfo of the last branch of tagSetInfoPool.get
AllocTagSetInfo == EmptyTagSetInfo(<<>>)

\* tagSetInfoPool.put(set): into the channel, and into the sync.Pool when the
\* channel is full
tagSetInfoPoolPut(p, set) ==
    IF Len(p.cache) < PoolCacheSize THEN [p EXCEPT !.cache = Append(@, set)]
    ELSE [p EXCEPT !.pool = @ \cup {set}]

\* tagSetInfoPool.get(): the outcomes it may have, each with the object
\* (0: a new one is allocated), where it came from and the pool it leaves.
\* sync.Pool.Get may return any of its objects, or nil
tagSetInfoPoolGet(p) ==
    IF p.cache # <<>>
    THEN {[set |-> Head(p.cache), from |-> "cache", p |-> [p EXCEPT !.cache = Tail(@)]]}
    ELSE {[set |-> v, from |-> "pool", p |-> [p EXCEPT !.pool = @ \ {v}]] : v \in p.pool}
         \cup {[set |-> 0, from |-> "new", p |-> p]}

\* a user of the pool: where it is ("idle", "got": NewTagSetInfo returned and
\* the object is untouched, "using", "releasing": its Unref saw zero,
\* "putting": its release has reset the object), its object, where get took
\* it from, and the references it holds
PoolUser(at, obj, from, refs) == [at |-> at, obj |-> obj, from |-> from, refs |-> refs]
IdleUser == PoolUser("idle", 0, "", 0)

InitPool ==
    /\ gs = <<>>
    /\ setPool = NewTagSetPool
    /\ holders = [u \in 1..MaxUsers |-> IdleUser]
    /\ NoIndex
    /\ NoCache
    /\ NoServices

\* user u runs NewTagSetInfo(); at most MaxObjects objects are allocated
NewTagSetInfo ==
    /\ \E u \in DOMAIN holders : \E r \in tagSetInfoPoolGet(setPool) :
           /\ holders[u].at = "idle"
           /\ r.set = 0 => Len(gs) < MaxObjects
           /\ gs' = IF r.set = 0 THEN Append(gs, AllocTagSetInfo) ELSE gs
           /\ setPool' = r.p
           /\ holders' = [holders EXCEPT ![u] =
                  PoolUser("got", IF r.set = 0 THEN Len(gs) + 1 ELSE r.set, r.from, 0)]
    /\ UNCHANGED <<indexVars, cacheVars, serviceVars>>

\* user u sets the group key of its object and appends a series
FillTagSetInfo ==
    /\ \E u \in DOMAIN holders : \E id \in PooledIDs :
           /\ holders[u].at \in {"got", "using"}
           /\ TagSetInfoLen(gs[holders[u].obj]) < MaxPooledSeries
           /\ gs' = [gs EXCEPT ![holders[u].obj] =
                  [TagSetInfoAppend(@, id, SeriesKeyOfID(id), FilterOfID(id), TagsOfID(id))
                      EXCEPT !.key = SeriesKeyOfID(id)]]
           /\ holders' = [holders EXCEPT ![u].at = "using"]
    /\ UNCHANGED <<indexVars, cacheVars, serviceVars, setPool>>

\* user u runs Ref() on its object
RefPooled ==
    /\ \E u \in DOMAIN holders :
           /\ holders[u].at \in {"got", "using"}
           /\ holders[u].refs < MaxRefs
           /\ gs' = [gs EXCEPT ![holders[u].obj].ref = AddInt64(@, 1)]
           /\ holders' = [holders EXCEPT ![u].at = "using", ![u].refs = @ + 1]
    /\ UNCHANGED <<indexVars, cacheVars, serviceVars, setPool>>

\* user u runs the atomic decrement of Unref() for a reference it holds
UnrefPooled ==
    /\ \E u \in DOMAIN holders :
           /\ holders[u].at = "using"
           /\ holders[u].refs > 0
           /\ gs' = [gs EXCEPT ![holders[u].obj].ref = AddInt64(@, -1)]
           /\ holders' = [holders EXCEPT
                  ![u].refs = @ - 1,
                  ![u].at = IF unrefReleases(AddInt64(gs[holders[u].obj].ref, -1))
                            THEN "releasing" ELSE "using"]
    /\ UNCHANGED <<indexVars, cacheVars, serviceVars, setPool>>

\* user u runs t.reset() in release()
ResetPooled ==
    /\ \E u \in DOMAIN holders :
           /\ holders[u].at = "releasing"
           /\ gs' = [gs EXCEPT ![holders[u].obj] = TagSetInfoReset(@)]
           /\ setPool' = [setPool EXCEPT !.cleared =
                  IF TagSetInfoLen(gs[holders[u].obj]) > 0
                  THEN @ \cup {holders[u].obj} ELSE @ \ {holders[u].obj}]
           /\ holders' = [holders EXCEPT ![u].at = "putting"]
    /\ UNCHANGED <<indexVars, cacheVars, serviceVars>>

\* user u runs setPool.put(t) in release()
PutPooled ==
    /\ \E u \in DOMAIN holders :
           /\ holders[u].at = "putting"
           /\ setPool' = tagSetInfoPoolPut(setPool, holders[u].obj)
           /\ holders' = [holders EXCEPT ![u] = IdleUser]
    /\ UNCHANGED <<indexVars, cacheVars, serviceVars, gs>>

\* the garbage collector empties the sync.Pool
CollectPooled ==
    /\ setPool.pool # {}
    /\ setPool' = [setPool EXCEPT !.pool = {}]
    /\ UNCHANGED <<indexVars, cacheVars, serviceVars, gs, holders>>

\* the users of the pool
NextPool ==
    \/ NewTagSetInfo
    \/ FillTagSetInfo
    \/ RefPooled
    \/ UnrefPooled
    \/ ResetPooled
    \/ PutPooled
    \/ CollectPooled

SpecPool == InitPool /\ [][NextPool]_vars

\* the byte slices of the user of the cache: buf, which holds data until the
\* user writes to it, and data2
data == <<1, 2, 3, 4, 5, 6, 7, 8, 9, 10>>
data2 == Append(data, 66)
BufSlice == 1
UserSlices == <<data, data2>>
Paths == {"opt/data/data.tsm", "opt/data/data.tsi"}
CacheKeys == {CreatCacheKey(p, o) : p \in Paths, o \in 0..(MaxOffset - 1)}

\* what the user holds: the page of its last Get (0: none), its last call
\* and the number of its calls
Client(page, last) == [page |-> page, last |-> last, calls |-> client.calls + 1]

\* GetReadCacheIns(): an empty cache
InitCache ==
    /\ readCache = EmptyReadCache
    /\ heap = [pages |-> [p \in {} |-> 0], slices |-> UserSlices]
    /\ client = [page |-> 0, last |-> [op |-> "none"], calls |-> 0]
    /\ NoIndex
    /\ NoTagSets
    /\ NoServices

\* the user runs cacheIns.AddPage(key, value, int64(len(value)))
CacheAddPage ==
    /\ client.calls < MaxCalls
    /\ \E key \in CacheKeys : \E slice \in DOMAIN heap.slices :
       \E r \in {AddPage(readCache, heap, key, slice, Len(heap.slices[slice]))} :
           /\ readCache' = r.rc
           /\ heap' = Collect(r.rc, r.hp, client.page)
           /\ client' = Client(client.page,
                               [op |-> "AddPage", key |-> key,
                                value |-> heap.slices[slice],
                                size |-> Len(heap.slices[slice])])
    /\ UNCHANGED <<indexVars, tagSetVars, serviceVars>>

\* the user runs cacheIns.Get(key) and keeps the page
CacheGet ==
    /\ client.calls < MaxCalls
    /\ \E key \in CacheKeys :
       \E r \in {Get(readCache, heap, key)} :
           /\ readCache' = r.rc
           /\ heap' = Collect(r.rc, r.hp, r.page)
           /\ client' = Client(r.page, [op |-> "Get", key |-> key, hit |-> r.hit])
    /\ UNCHANGED <<indexVars, tagSetVars, serviceVars>>

\* cacheIns.RefreshOldBuffer()
CacheRefreshOldBuffer ==
    /\ client.calls < MaxCalls
    /\ readCache' = RefreshOldBuffer(readCache)
    /\ heap' = Collect(RefreshOldBuffer(readCache), heap, client.page)
    /\ client' = Client(client.page, [op |-> "RefreshOldBuffer"])
    /\ UNCHANGED <<indexVars, tagSetVars, serviceVars>>

\* the user runs cacheIns.Remove(path)
CacheRemove ==
    /\ client.calls < MaxCalls
    /\ \E path \in Paths :
       \E r \in {Remove(readCache, heap, path)} :
           /\ readCache' = r.rc
           /\ heap' = Collect(r.rc, r.hp, client.page)
           /\ client' = Client(client.page,
                               [op |-> "Remove", path |-> path, hit |-> r.hit])
    /\ UNCHANGED <<indexVars, tagSetVars, serviceVars>>

\* the user runs cacheIns.Purge()
CachePurge ==
    /\ client.calls < MaxCalls
    /\ readCache' = Purge(readCache)
    /\ heap' = Collect(Purge(readCache), heap, client.page)
    /\ client' = Client(client.page, [op |-> "Purge"])
    /\ UNCHANGED <<indexVars, tagSetVars, serviceVars>>

\* the user writes to its slice: buf[0] = 66
WriteBuf ==
    /\ client.calls < MaxCalls
    /\ heap.slices[BufSlice][1] # 66
    /\ heap' = [heap EXCEPT !.slices[BufSlice][1] = 66]
    /\ client' = Client(client.page, [op |-> "WriteBuf"])
    /\ UNCHANGED <<indexVars, tagSetVars, serviceVars, readCache>>

\* a user of the read cache
NextCache ==
    \/ CacheAddPage
    \/ CacheGet
    \/ CacheRefreshOldBuffer
    \/ CacheRemove
    \/ CachePurge
    \/ WriteBuf

SpecCache == InitCache /\ [][NextCache]_vars

\* the datasets of the series key enumeration: series of cpu and mem written
\* under the version their measurement had at the time, which never
\* decreases; the builder knows the version of cpu, and of mem or not
KeyDatasets ==
    {[t \in TSIDs |->
        Series(IF t % 2 = 1 THEN Cpu ELSE Mem,
               WithTag(Tag1(Host, ValA), SeriesNo, ValNo(t)), v[t])] :
        v \in {w \in [TSIDs -> 0..MaxVersion] : Monotone(w)}}

\* the version of the last written series of measurement m
LastVersion(d, m) ==
    LET S == {d[t].ver : t \in {u \in DOMAIN d : d[u].mst = m}}
    IN IF S = {} THEN 0 ELSE CHOOSE x \in S : \A y \in S : y <= x

InitKeys ==
    /\ \E d \in KeyDatasets :
       \E known \in {{Cpu}, {Cpu, Mem}} :
           /\ series = d
           /\ tbl = BuildTable(d, MaxTSIDsPerRow)
           /\ versions = [m \in known |-> LastVersion(d, m)]
    /\ tsFail = 0
    /\ deletedTSIDs = {}
    /\ pc = "idle"
    /\ ret = NoRet
    /\ NoTagSets
    /\ NoCache
    /\ NoServices

NextKeys ==
    \/ AdvanceVersion
    \/ DeleteTSID
    \/ GetAllSeriesKeys
    \/ Release

SpecKeys == InitKeys /\ [][NextKeys]_vars

(***************************************************************************)
(* The Compactor (engine/compact.go).  Timestamps are seconds; uint64      *)
(* arithmetic is kept at WordBits bits.                                    *)
(***************************************************************************)
\* the modulus of unsigned arithmetic
WordModulus == 2 ^ WordBits
\* "d := nowTime - lastWrite" on unsigned integers
SubUint64(a, b) == (a - b + WordModulus) % WordModulus

\* fullCompColdDuration = uint64(time.Minute.Seconds() * 60)
DefaultFullCompColdDuration == 3600
\* "time.Minute * 2", in seconds
MinFullCompColdDuration == 120

\* SetFullCompColdDuration(d), d in seconds: the value it stores
SetFullCompColdDuration(d) ==
    IF d < MinFullCompColdDuration THEN MinFullCompColdDuration ELSE d

\* immutable.LevelCompactRule: the levels of a level compaction
LevelCompactRule == <<0, 1>>

\* what compact() invokes on a shard: FullCompact(id), or LevelCompact(level,
\* id) for each level
FullCompaction == <<"FullCompact">>
LevelCompactions == [i \in 1..Len(LevelCompactRule) |-> "LevelCompact"]

\* a shard as RegisterShard gets it, last written at t
NewShard(t) == [closed |-> FALSE, compactionEnabled |-> TRUE, lastWrite |-> t]

\* "d := nowTime - lastWrite; if d >= atomic.LoadUint64(&fullCompColdDuration)"
coldEnough(nowTime, lastWrite, cold) == SubUint64(nowTime, lastWrite) >= cold

\* the loop of compact() over compactShards from shard number i on: what it
\* invoked on each shard
RECURSIVE compactLoop(_, _, _, _)
compactLoop(c, compactShards, i, invoked) ==
    IF i > Len(compactShards) THEN invoked
    ELSE IF c.sources[compactShards[i]].closed THEN invoked
    ELSE IF ~c.sources[compactShards[i]].compactionEnabled THEN invoked
    ELSE IF coldEnough(c.nowTime, c.sources[compactShards[i]].lastWrite,
                       c.fullCompColdDuration)
    THEN compactLoop(c, compactShards, i + 1,
                     [invoked EXCEPT ![compactShards[i]] = FullCompaction])
    ELSE compactLoop(c, compactShards, i + 1,
                     [invoked EXCEPT ![compactShards[i]] = LevelCompactions])

\* Compactor.compact() when the range over c.sources gave the shards in the
\* order compactShards
compact(c, compactShards) ==
    compactLoop(c, compactShards, 1, [id \in DOMAIN c.sources |-> <<>>])

\* the orders in which a range over the map of shards S may give them
Orders(S) ==
    {o \in [1..Cardinality(S) -> S] : \A i, j \in 1..Cardinality(S) : i # j => o[i] # o[j]}

ShardIDs == 1..MaxShards
\* the steps by which the cached timestamp advances
TickSteps == {1, MinFullCompColdDuration}
\* the durations SetFullCompColdDuration is called with, in seconds
ColdDurations == {0 - 1, 0, MinFullCompColdDuration - 1, MinFullCompColdDuration,
                  MinFullCompColdDuration + 1}

\* NewCompactor()
InitCompact ==
    /\ compWorker = [sources |-> [id \in {} |-> 0], nowTime |-> 0, ticks |-> 0,
                     fullCompColdDuration |-> DefaultFullCompColdDuration,
                     compactShards |-> <<>>, invoked |-> <<>>, rounds |-> 0]
    /\ uuidGen = <<>> /\ spdyCfg = <<>>
    /\ NoIndex
    /\ NoTagSets
    /\ NoCache

\* Compactor.RegisterShard(sh)
RegisterShard ==
    /\ \E id \in ShardIDs \ DOMAIN compWorker.sources :
         compWorker' = [compWorker EXCEPT
             !.sources = [x \in DOMAIN @ \cup {id} |->
                            IF x = id THEN NewShard(compWorker.nowTime) ELSE @[x]]]
    /\ UNCHANGED <<indexVars, tagSetVars, cacheVars, uuidGen, spdyCfg>>

\* Compactor.UnregisterShard(shardId)
UnregisterShard ==
    /\ \E id \in DOMAIN compWorker.sources :
         compWorker' = [compWorker EXCEPT
             !.sources = [x \in DOMAIN @ \ {id} |-> @[x]]]
    /\ UNCHANGED <<indexVars, tagSetVars, cacheVars, uuidGen, spdyCfg>>

\* a shard is closed: sh.closed.Signal() is readable from now on
CloseShard ==
    /\ \E id \in DOMAIN compWorker.sources :
         /\ ~compWorker.sources[id].closed
         /\ compWorker' = [compWorker EXCEPT !.sources[id].closed = TRUE]
    /\ UNCHANGED <<indexVars, tagSetVars, cacheVars, uuidGen, spdyCfg>>

\* Compactor.ShardCompactionSwitch(shid, en)
ShardCompactionSwitch ==
    /\ \E shid \in ShardIDs, en \in BOOLEAN :
         compWorker' = IF shid \notin DOMAIN compWorker.sources THEN compWorker
                       ELSE [compWorker EXCEPT !.sources[shid].compactionEnabled = en]
    /\ UNCHANGED <<indexVars, tagSetVars, cacheVars, uuidGen, spdyCfg>>

\* a shard is written: sh.LastWriteTime() becomes the timestamp of the write.
\* compact() reads nowTime before it reads the last write time, so that a
\* write between the two reads may carry the second after nowTime
WriteShard ==
    /\ \E id \in DOMAIN compWorker.sources, ahead \in {0, 1} :
         /\ ~compWorker.sources[id].closed
         /\ compWorker' = [compWorker EXCEPT
                              !.sources[id].lastWrite = compWorker.nowTime + ahead]
    /\ UNCHANGED <<indexVars, tagSetVars, cacheVars, uuidGen, spdyCfg>>

\* fasttime refreshes the cached timestamp
Tick ==
    /\ compWorker.ticks < MaxTicks
    /\ \E dt \in TickSteps :
         compWorker' = [compWorker EXCEPT !.nowTime = @ + dt, !.ticks = @ + 1]
    /\ UNCHANGED <<indexVars, tagSetVars, cacheVars, uuidGen, spdyCfg>>

\* a caller runs SetFullCompColdDuration(d)
StoreFullCompColdDuration ==
    /\ \E d \in ColdDurations :
         compWorker' = [compWorker EXCEPT
                           !.fullCompColdDuration = SetFullCompColdDuration(d)]
    /\ UNCHANGED <<indexVars, tagSetVars, cacheVars, uuidGen, spdyCfg>>

\* the ticker of run() fires: one round of Compactor.compact()
Compact ==
    /\ \E order \in Orders(DOMAIN compWorker.sources) :
         compWorker' = [compWorker EXCEPT
                           !.compactShards = order,
                           !.invoked = compact(compWorker, order),
                           !.rounds = 1]
    /\ UNCHANGED <<indexVars, tagSetVars, cacheVars, uuidGen, spdyCfg>>

\* the compactor and the users of its shards
NextCompact ==
    \/ RegisterShard
    \/ UnregisterShard
    \/ CloseShard
    \/ ShardCompactionSwitch
    \/ WriteShard
    \/ Tick
    \/ StoreFullCompColdDuration
    \/ Compact

SpecCompact == InitCompact /\ [][NextCompact]_vars

(***************************************************************************)
(* GenerateUUID (its callers run concurrently).  A byte has ByteBits bits, *)
(* a uint64 has eight bytes.                                               *)
(***************************************************************************)
ByteModulus == 2 ^ ByteBits
Uint64Modulus == ByteModulus ^ 8
\* three bytes of LogicClock and five bytes of sequenceID make a UUID
ClockModulus == ByteModulus ^ 3
IDModulus == ByteModulus ^ 5

\* byte(x >> (8 * n))
ByteAt(x, n) == (x \div (ByteModulus ^ n)) % ByteModulus

\* binary.BigEndian.Uint64(b)
RECURSIVE BigEndianUint64(_)
BigEndianUint64(b) ==
    IF b = <<>> THEN 0
    ELSE BigEndianUint64(SubSeq(b, 1, Len(b) - 1)) * ByteModulus + b[Len(b)]

\* faulty variant of AddUint64: the value read, without the addition
AddUint64Lost(v, delta) == v

\* atomic.AddUint64(&v, delta): the new value
AddUint64(v, delta) == (v + delta) % Uint64Modulus

Callers == 1..MaxCallers
\* the values of metaclient.LogicClock; the last one has more than three bytes
Clocks == {ClockModulus - 1, ClockModulus + 1}
\* so many calls whose values the model does not keep that with two more the
\* five bytes of the ID have run through all their values
UnobservedCalls == IDModulus - 2
\* sequenceID = uint64(time.Now().Unix()): the values at start, two IDs
\* before the five bytes and before the eight bytes wrap
StartIDs == {IDModulus - 2, Uint64Modulus - 2}

InitUUID ==
    /\ \E clock \in Clocks, start \in StartIDs :
         uuidGen = [LogicClock |-> clock, sequenceID |-> start, generated |-> 0,
                    unobserved |-> 0, clockChanges |-> 0,
                    pc |-> [c \in Callers |-> "idle"],
                    b |-> [c \in Callers |-> <<>>],
                    call |-> [c \in Callers |-> <<>>],
                    returned |-> {}]
    /\ compWorker = <<>> /\ spdyCfg = <<>>
    /\ NoIndex
    /\ NoTagSets
    /\ NoCache

\* GenerateUUID, lines 307-311: an empty buffer from kbPool and the three
\* bytes of LogicClock
AppendLogicClock ==
    /\ \E c \in Callers :
         /\ uuidGen.pc[c] = "idle"
         /\ uuidGen.generated - uuidGen.unobserved
               + Cardinality({x \in Callers : uuidGen.pc[x] = "clock"}) < MaxUUIDs
         /\ uuidGen' = [uuidGen EXCEPT
               !.pc[c] = "clock",
               !.b[c] = <<ByteAt(uuidGen.LogicClock, 2), ByteAt(uuidGen.LogicClock, 1),
                          ByteAt(uuidGen.LogicClock, 0)>>,
               !.call[c] = [clock |-> uuidGen.LogicClock]]
    /\ UNCHANGED <<indexVars, tagSetVars, cacheVars, compWorker, spdyCfg>>

\* GenerateUUID, lines 314-319: the atomic increment of sequenceID and the
\* five bytes of the new value
AppendSequenceID ==
    /\ \E c \in Callers, id \in {AddUint64(uuidGen.sequenceID, 1)} :
         /\ uuidGen.pc[c] = "clock"
         /\ uuidGen' = [uuidGen EXCEPT
               !.pc[c] = "id",
               !.sequenceID = id,
               !.generated = @ + 1,
               !.b[c] = @ \o <<ByteAt(id, 4), ByteAt(id, 3), ByteAt(id, 2),
                               ByteAt(id, 1), ByteAt(id, 0)>>,
               !.call[c] = [clock |-> @.clock, id |-> id,
                            n |-> uuidGen.generated + 1]]
    /\ UNCHANGED <<indexVars, tagSetVars, cacheVars, compWorker, spdyCfg>>

\* GenerateUUID, lines 321-324: the buffer read as a big endian number, put
\* back and returned
ReturnUUID ==
    /\ \E c \in Callers :
         /\ uuidGen.pc[c] = "id"
         /\ uuidGen' = [uuidGen EXCEPT
               !.pc[c] = "idle",
               !.b[c] = <<>>,
               !.call[c] = <<>>,
               !.returned = @ \cup {[pid |-> BigEndianUint64(uuidGen.b[c]),
                                     clock |-> uuidGen.call[c].clock,
                                     id |-> uuidGen.call[c].id,
                                     n |-> uuidGen.call[c].n]}]
    /\ UNCHANGED <<indexVars, tagSetVars, cacheVars, compWorker, spdyCfg>>

\* UnobservedCalls calls of GenerateUUID by other callers, which keep the
\* values to themselves
GenerateUnobserved ==
    /\ uuidGen.unobserved = 0
    /\ uuidGen' = [uuidGen EXCEPT
          !.sequenceID = AddUint64(@, UnobservedCalls),
          !.generated = @ + UnobservedCalls,
          !.unobserved = UnobservedCalls]
    /\ UNCHANGED <<indexVars, tagSetVars, cacheVars, compWorker, spdyCfg>>

\* the meta client stores another logic clock
SetLogicClock ==
    /\ uuidGen.clockChanges < MaxClockChanges
    /\ \E clock \in Clocks \ {uuidGen.LogicClock} :
         uuidGen' = [uuidGen EXCEPT !.LogicClock = clock, !.clockChanges = @ + 1]
    /\ UNCHANGED <<indexVars, tagSetVars, cacheVars, compWorker, spdyCfg>>

\* the callers of GenerateUUID and the meta client
NextUUID ==
    \/ AppendLogicClock
    \/ AppendSequenceID
    \/ ReturnUUID
    \/ GenerateUnobserved
    \/ SetLogicClock

SpecUUID == InitUUID /\ [][NextUUID]_vars

(***************************************************************************)
(* config.Spdy and FormatSpdy (lib/config/spdy.go).  Durations are in      *)
(* milliseconds.                                                           *)
(***************************************************************************)
\* toml.Duration(time.Second)
Second == 1000

MinRecvWindowSize == 2
MinConcurrentAcceptSession == 1024
MinOpenSessionTimeout == 60 * Second
MinSessionSelectTimeout == 60 * Second
MinTCPDialTimeout == Second
MinConnPoolSize == 2

DefaultRecvWindowSize == 8
DefaultConcurrentAcceptSession == 4096
DefaultOpenSessionTimeout == 300 * Second
DefaultSessionSelectTimeout == 300 * Second
DefaultTCPDialTimeout == Second
DefaultConnPoolSize == 4

\* NewSpdy(); the fields FormatSpdy does not touch are left out
NewSpdy ==
    [RecvWindowSize |-> DefaultRecvWindowSize,
     ConcurrentAcceptSession |-> DefaultConcurrentAcceptSession,
     ConnPoolSize |-> DefaultConnPoolSize,
     OpenSessionTimeout |-> DefaultOpenSessionTimeout,
     SessionSelectTimeout |-> DefaultSessionSelectTimeout,
     TCPDialTimeout |-> DefaultTCPDialTimeout,
     TLSEnable |-> FALSE,
     TLSClientAuth |-> FALSE,
     TLSCertificate |-> "",
     TLSPrivateKey |-> "",
     TLSClientCertificate |-> "",
     TLSClientPrivateKey |-> "",
     TLSCARoot |-> ""]

\* formatInt(got, min, def)
formatInt(got, min, def) ==
    IF got <= 0 THEN def
    ELSE IF got < min THEN min
    ELSE got

\* limitDuration(got, min, def)
limitDuration(got, min, def) ==
    IF got <= 0 THEN def
    ELSE IF got < min THEN min
    ELSE got

\* FormatSpdy, lines 152-157: the numeric settings and the durations
FormatSpdyLimits(cfg) ==
    [cfg EXCEPT
       !.RecvWindowSize = formatInt(@, MinRecvWindowSize, DefaultRecvWindowSize),
       !.ConcurrentAcceptSession =
           formatInt(@, MinConcurrentAcceptSession, DefaultConcurrentAcceptSession),
       !.OpenSessionTimeout =
           limitDuration(@, MinOpenSessionTimeout, DefaultOpenSessionTimeout),
       !.SessionSelectTimeout =
           limitDuration(@, MinSessionSelectTimeout, DefaultSessionSelectTimeout),
       !.TCPDialTimeout = limitDuration(@, MinTCPDialTimeout, DefaultTCPDialTimeout),
       !.ConnPoolSize = formatInt(@, MinConnPoolSize, DefaultConnPoolSize)]

\* FormatSpdy, lines 158-172: the five statements on the TLS settings, in
\* the order of the code
FormatSpdyTLS(cfg) ==
    LET c1 == IF cfg.TLSCertificate = "" THEN [cfg EXCEPT !.TLSEnable = FALSE] ELSE cfg
        c2 == IF c1.TLSPrivateKey = ""
              THEN [c1 EXCEPT !.TLSPrivateKey = c1.TLSCertificate] ELSE c1
        c3 == IF c2.TLSClientPrivateKey = ""
              THEN [c2 EXCEPT !.TLSClientPrivateKey = c2.TLSClientCertificate] ELSE c2
        c4 == IF c3.TLSClientCertificate = "" \/ c3.TLSCARoot = ""
              THEN [c3 EXCEPT !.TLSClientAuth = FALSE] ELSE c3
    IN  IF ~c4.TLSClientAuth
        THEN [c4 EXCEPT !.TLSClientCertificate = c4.TLSCertificate] ELSE c4

\* FormatSpdy(cfg): the configuration it leaves
FormatSpdy(cfg) == FormatSpdyTLS(FormatSpdyLimits(cfg))

\* the numeric settings with their minimum and their default
SpdyLimits ==
    [RecvWindowSize |-> <<MinRecvWindowSize, DefaultRecvWindowSize>>,
     ConcurrentAcceptSession |->
         <<MinConcurrentAcceptSession, DefaultConcurrentAcceptSession>>,
     ConnPoolSize |-> <<MinConnPoolSize, DefaultConnPoolSize>>,
     OpenSessionTimeout |-> <<MinOpenSessionTimeout, DefaultOpenSessionTimeout>>,
     SessionSelectTimeout |-> <<MinSessionSelectTimeout, DefaultSessionSelectTimeout>>,
     TCPDialTimeout |-> <<MinTCPDialTimeout, DefaultTCPDialTimeout>>]

\* the values a configuration file may give to a setting
SettingValues(f) ==
    IF f \in DOMAIN SpdyLimits
    THEN {0 - 1, 0, 1, SpdyLimits[f][1], SpdyLimits[f][1] + 1}
    ELSE IF f \in {"TLSEnable", "TLSClientAuth"} THEN BOOLEAN
    ELSE {"", f}

\* the settings of cfg that differ from NewSpdy()
Decoded(cfg) == {f \in DOMAIN NewSpdy : cfg[f] # NewSpdy[f]}

\* a server starts with NewSpdy()
InitSpdy ==
    /\ spdyCfg = [cfg |-> NewSpdy, formats |-> 0, previous |-> <<>>]
    /\ compWorker = <<>> /\ uuidGen = <<>>
    /\ NoIndex
    /\ NoTagSets
    /\ NoCache

\* the configuration file is decoded into the Spdy: one of its settings
DecodeSetting ==
    /\ spdyCfg.formats = 0
    /\ \E f \in DOMAIN NewSpdy :
         \E v \in SettingValues(f) :
            /\ Cardinality(Decoded(spdyCfg.cfg) \cup {f}) <= MaxSettings
            /\ spdyCfg' = [spdyCfg EXCEPT !.cfg[f] = v]
    /\ UNCHANGED <<indexVars, tagSetVars, cacheVars, compWorker, uuidGen>>

\* a caller runs FormatSpdy(&cfg)
FormatSpdyCfg ==
    /\ spdyCfg.formats < MaxFormats
    /\ spdyCfg' = [cfg |-> FormatSpdy(spdyCfg.cfg),
                   formats |-> spdyCfg.formats + 1,
                   previous |-> spdyCfg.cfg]
    /\ UNCHANGED <<indexVars, tagSetVars, cacheVars, compWorker, uuidGen>>

NextSpdy == DecodeSetting \/ FormatSpdyCfg

SpecSpdy == InitSpdy /\ [][NextSpdy]_vars

(***************************************************************************)
(* Properties of the tag filter searches (SpecFilter).                     *)
(***************************************************************************)
\* the series of measurement m in the dataset
SeriesOfMeasurement(m) == {t \in DOMAIN series : series[t].mst = m}
\* the series of measurement m that carry no tag k
SeriesWithoutTag(m, k) == {t \in SeriesOfMeasurement(m) : k \notin DOMAIN series[t].tags}
\* a call of getTSIDsByTagFilter with a negative literal filter has returned
NegativeLiteralReturned ==
    /\ ret.op = "getTSIDsByTagFilter"
    /\ ret.tf.isNegative
    /\ ~ret.tf.isRegexp

\* C1: for a negative literal filter k != v, getTSIDsByTagFilter returns
\* without error the set getTSIDsByMeasurementName(m) minus the set that
\* searchTSIDsByTagFilter returns for the positive filter k == v, and every
\* series of m that carries no tag k is in the result.
C1_NegationLaw ==
    NegativeLiteralReturned =>
        /\ ret.err = "nil"
        /\ ret.set.s =
             getTSIDsByMeasurementName(IS, ret.tf.name).set.s
             \ searchTSIDsByTagFilter(IS, [ret.tf EXCEPT !.isNegative = FALSE]).set.s
        /\ SeriesWithoutTag(ret.tf.name, ret.tf.key) \subseteq ret.set.s

\* a negative literal filter returned a series without the tag, and the
\* positive filter matches some series
C1_Witness ==
    /\ NegativeLiteralReturned
    /\ SeriesWithoutTag(ret.tf.name, ret.tf.key) # {}
    /\ SeriesWithoutTag(ret.tf.name, ret.tf.key) \subseteq ret.set.s
    /\ TSIDsOf(series, ret.tf.name, ret.tf.key, ret.tf.value) # {}
    /\ ret.set.s # SeriesOfMeasurement(ret.tf.name)

\* the position of the rows of (k, v) of measurement cpu in the table
RowsOfValue(k, v) == {i \in 1..Len(tbl) : HasPrefix(tbl[i], TagRow(Cpu, k, v, <<>>))}
\* the TSID lists of those rows
RowTSIDs(k, v) ==
    UNION {SeqToSet(ParseTSIDs(From(tbl[i], Len(TagRow(Cpu, k, v, <<>>))))) :
             i \in RowsOfValue(k, v)}
\* the filter of the fast path and the filter of the slow path for k = v
FastFilter(k, v) == TagFilterInit(Cpu, k, v, FALSE, FALSE)
SlowFilter(k, v) == [TagFilterInit(Cpu, k, v, FALSE, FALSE) EXCEPT !.orSuffixes = <<>>]
\* a call of one of the two paths has returned
PathReturned == ret.op \in {"fastPath", "slowPath"}

\* C2: for a literal value v of key k the fast path and the slow path return
\* the same TSID set without error, whatever the row layout.
C2_FastEqualsSlow ==
    /\ ret.op = "fastPath" =>
         /\ ret.err = "nil"
         /\ getTSIDsForTagFilterSlow(IS, SlowFilter(ret.key, ret.value), NilSet).err = "nil"
         /\ getTSIDsForTagFilterSlow(IS, SlowFilter(ret.key, ret.value), NilSet).tsids
              = ret.tsids
    /\ ret.op = "slowPath" =>
         /\ ret.err = "nil"
         /\ updateTSIDsByOrSuffixesOfTagFilter(IS, FastFilter(ret.key, ret.value), {}).err
              = "nil"
         /\ updateTSIDsByOrSuffixesOfTagFilter(IS, FastFilter(ret.key, ret.value), {}).tsids
              = ret.tsids

\* the slow path returned the series of value a where a1 exists too, the
\* rows of a1 are full enough for a re-seek and a is split over several rows
C2_Witness ==
    /\ ret.op = "slowPath"
    /\ ret.value = ValA
    /\ ret.tsids # {}
    /\ Cardinality(RowsOfValue(Host, ValA)) > 1
    /\ Cardinality(TSIDsOf(series, Cpu, Host, ValA1)) >= MaxTSIDsPerRow \div 2
    /\ \E i \in RowsOfValue(Host, ValA1) : i \in ret.evals

\* C3: when the TSIDs of one (key, value) pair are stored in several rows,
\* the search of that value returns the union of the TSID lists of all those
\* rows, which is the result on the same series stored in one row per value.
C3_MultiRowUnion ==
    (PathReturned /\ Cardinality(RowsOfValue(ret.key, ret.value)) > 1) =>
        /\ ret.err = "nil"
        /\ ret.tsids = RowTSIDs(ret.key, ret.value)
        /\ ret.tsids = TSIDsOf(series, Cpu, ret.key, ret.value)
        /\ ret.tsids =
             searchTSIDsByTagFilter(IndexSearch(BuildTable(series, MaxTSID), tsFail),
                                    FastFilter(ret.key, ret.value)).set.s

\* a value with more TSIDs than a row holds was searched on rows merged to
\* full rows
C3_Witness ==
    /\ PathReturned
    /\ Cardinality(ret.tsids) > MaxTSIDsPerRow
    /\ Cardinality(RowsOfValue(ret.key, ret.value)) > 1
    /\ \E i \in RowsOfValue(ret.key, ret.value) :
         TSIDsLen(From(tbl[i], Len(TagRow(Cpu, ret.key, ret.value, <<>>)))) = MaxTSIDsPerRow

(***************************************************************************)
(* Properties of the predicate searches (Spec).                            *)
(***************************************************************************)
\* a call of searchTSIDs on measurement cpu has returned
SearchReturned == ret.op = "searchTSIDs" /\ ret.name = Cpu
\* the list searchTSIDs returns for predicate e on the index as it is
ListOf(e) == searchTSIDs(IS, Cpu, e, deletedTSIDs).list
\* the set searchTSIDsInternal resolves predicate e to
SetOf(e) == searchTSIDsInternal(IS, Cpu, e).set
\* the values tag k takes in measurement m
ValuesOf(m, k) ==
    {series[t].tags[k] : t \in {u \in SeriesOfMeasurement(m) : k \in DOMAIN series[u].tags}}

\* the dataset of the scenario: cpu has tag host = a for TSIDs 1, 2, 3 and
\* host = b for TSIDs 4, 5, and nothing is deleted
ScenarioAB ==
    /\ SeriesOfMeasurement(Cpu) = {1, 2, 3, 4, 5}
    /\ TSIDsOf(series, Cpu, Host, ValA) = {1, 2, 3}
    /\ TSIDsOf(series, Cpu, Host, ValB) = {4, 5}
    /\ deletedTSIDs = {}

\* C4: on the scenario dataset searchTSIDs returns 1,2,3 for host='a', 4,5 for
\* host!='a', nothing for host='a' AND host='b' and 1,2,3,4,5 for
\* host='a' OR host='b'.
C4_Scenario ==
    (ScenarioAB /\ SearchReturned) =>
        /\ ret.expr = TagEq(Host, ValA) => ret.err = "nil" /\ ret.list = <<1, 2, 3>>
        /\ ret.expr = TagNeq(Host, ValA) => ret.err = "nil" /\ ret.list = <<4, 5>>
        /\ ret.expr = And(TagEq(Host, ValA), TagEq(Host, ValB)) =>
             ret.err = "nil" /\ ret.list = <<>>
        /\ ret.expr = Or(TagEq(Host, ValA), TagEq(Host, ValB)) =>
             ret.err = "nil" /\ ret.list = <<1, 2, 3, 4, 5>>

\* host!='a' was answered on the scenario dataset
C4_Witness ==
    /\ ScenarioAB
    /\ SearchReturned
    /\ ret.expr = TagNeq(Host, ValA)
    /\ ret.list = <<4, 5>>

\* the dataset where host takes the values a1, a2 and b1
ScenarioA1A2B1 == ValuesOf(Cpu, Host) = {ValA1, ValA2, ValB1}

\* C5: where host takes the values a1, a2 and b1, host =~ /^a.*/ resolves to
\* the TSIDs of host='a1' OR host='a2'.
C5_RegexIsDisjunction ==
    (ScenarioA1A2B1 /\ SearchReturned /\ ret.expr = TagRegex(Host, RePrefixA)) =>
        /\ ret.err = "nil"
        /\ ret.list = ListOf(Or(TagEq(Host, ValA1), TagEq(Host, ValA2)))
        /\ SeqToSet(ret.list) =
             (TSIDsOf(series, Cpu, Host, ValA1) \cup TSIDsOf(series, Cpu, Host, ValA2))
             \ deletedTSIDs

\* the regex was answered with series of a1 and of a2 while b1 has series
C5_Witness ==
    /\ ScenarioA1A2B1
    /\ SearchReturned
    /\ ret.expr = TagRegex(Host, RePrefixA)
    /\ SeqToSet(ret.list) \cap TSIDsOf(series, Cpu, Host, ValA1) # {}
    /\ SeqToSet(ret.list) \cap TSIDsOf(series, Cpu, Host, ValA2) # {}
    /\ TSIDsOf(series, Cpu, Host, ValB1) \ deletedTSIDs # {}

\* the predicate is (x OR y) AND x
IsMeetOfJoin(e) ==
    /\ e.t = "binary" /\ e.op = "AND"
    /\ e.lhs.t = "binary" /\ e.lhs.op = "OR"
    /\ e.lhs.lhs = e.rhs
\* the predicate is x OR (x AND y)
IsJoinOfMeet(e) ==
    /\ e.t = "binary" /\ e.op = "OR"
    /\ e.rhs.t = "binary" /\ e.rhs.op = "AND"
    /\ e.rhs.lhs = e.lhs

\* C6: with A and B the sets of two tag predicates x and y, the operations of
\* AND and OR satisfy intersect(union(A, B), A) = A and
\* union(A, intersect(A, B)) = A: (x OR y) AND x and x OR (x AND y) resolve
\* to the set of x.
C6_LatticeLaws ==
    /\ (SearchReturned /\ IsMeetOfJoin(ret.expr)) =>
         /\ ret.err = "nil"
         /\ ret.list = ListOf(ret.expr.rhs)
         /\ Intersect(UnionMayOwn(SetOf(ret.expr.rhs), SetOf(ret.expr.lhs.rhs)),
                      SetOf(ret.expr.rhs)) = SetOf(ret.expr.rhs)
    /\ (SearchReturned /\ IsJoinOfMeet(ret.expr)) =>
         /\ ret.err = "nil"
         /\ ret.list = ListOf(ret.expr.lhs)
         /\ UnionMayOwn(SetOf(ret.expr.lhs),
                        Intersect(SetOf(ret.expr.lhs), SetOf(ret.expr.rhs.rhs)))
              = SetOf(ret.expr.lhs)

\* (x OR y) AND x was answered where neither set contains the other
C6_Witness ==
    /\ SearchReturned
    /\ IsMeetOfJoin(ret.expr)
    /\ SetOf(ret.expr.rhs).s \ SetOf(ret.expr.lhs.rhs).s # {}
    /\ SetOf(ret.expr.lhs.rhs).s \ SetOf(ret.expr.rhs).s # {}
    /\ ret.list # <<>>

(***************************************************************************)
(* Properties of the series key enumeration (SpecKeys) and of the          *)
(* tombstones (Spec).                                                      *)
(***************************************************************************)
\* a call of getAllSeriesKeys has returned
KeysReturned == ret.op = "getAllSeriesKeys"
\* the version of series t is not the current version of its measurement
StaleSeries(t) ==
    series[t].mst \in DOMAIN versions /\ series[t].ver # versions[series[t].mst]
\* the version embedded in the last two bytes of a series key
KeyVersionOf(key) == UnmarshalUint16(From(key, Len(key) - 2))

\* C7: getAllSeriesKeys returns no key whose embedded version differs from
\* the current version of its measurement, and it returns the key of every
\* series that is not deleted and carries the current version.
C7_StaleKeysExcluded ==
    KeysReturned =>
        /\ ret.err = "nil"
        /\ \A i \in 1..Len(ret.keys) :
             MeasurementName(ret.keys[i]).name \in DOMAIN versions =>
                KeyVersionOf(ret.keys[i]) = versions[MeasurementName(ret.keys[i]).name]
        /\ \A t \in DOMAIN series :
             StaleSeries(t) => SeriesKey(series[t]) \notin SeqToSet(ret.keys)
        /\ \A t \in DOMAIN series \ deletedTSIDs :
             ~StaleSeries(t) => SeriesKey(series[t]) \in SeqToSet(ret.keys)

\* the current version of cpu advanced past the version of a stored series,
\* and the enumeration left that series out and returned a current one
C7_Witness ==
    /\ KeysReturned
    /\ versions[Cpu] > 0
    /\ \E t \in SeriesOfMeasurement(Cpu) \ deletedTSIDs :
         /\ series[t].ver < versions[Cpu]
         /\ SeriesKey(series[t]) \notin SeqToSet(ret.keys)
    /\ \E t \in SeriesOfMeasurement(Cpu) :
         /\ series[t].ver = versions[Cpu]
         /\ SeriesKey(series[t]) \in SeqToSet(ret.keys)

\* C8: a query leaves the deleted-TSID set as it was, the list searchTSIDs
\* returns holds no deleted TSID and getAllSeriesKeys returns the key of no
\* deleted series.
C8_DeletedExcluded ==
    [][(pc = "idle" /\ pc' = "done") =>
          /\ deletedTSIDs' = deletedTSIDs
          /\ ret'.op = "searchTSIDs" => SeqToSet(ret'.list) \cap deletedTSIDs = {}
          /\ ret'.op = "getAllSeriesKeys" =>
               \A t \in deletedTSIDs : SeriesKey(series[t]) \notin SeqToSet(ret'.keys)]_vars

\* a predicate that matches a deleted series was answered with the other
\* series it matches
C8_Witness ==
    /\ SearchReturned
    /\ ret.list # <<>>
    /\ deletedTSIDs \cap SetOf(ret.expr).s # {}
    /\ SeqToSet(ret.list) = SetOf(ret.expr).s \ deletedTSIDs

IsLiteralWith(e, op, b) ==
    /\ e.t = "binary" /\ e.op = op
    /\ e.lhs = BooleanLiteral(b)
    /\ e.rhs \in TagPreds

\* C10: false AND X resolves to the empty set, false OR X to the set of X
\* and true AND X to the set of X.
C10_BooleanLiterals ==
    /\ (SearchReturned /\ IsLiteralWith(ret.expr, "AND", FALSE)) =>
         ret.err = "nil" /\ ret.list = <<>>
    /\ (SearchReturned /\ IsLiteralWith(ret.expr, "OR", FALSE)) =>
         ret.err = "nil" /\ ret.list = ListOf(ret.expr.rhs)
    /\ (SearchReturned /\ IsLiteralWith(ret.expr, "AND", TRUE)) =>
         ret.err = "nil" /\ ret.list = ListOf(ret.expr.rhs)

(***************************************************************************)
(* Properties of the iterator path (SpecIter).                             *)
(***************************************************************************)
IterReturned == pc = "done" /\ ret.op = "measurementSeriesByExprIterator"

\* C11: for every predicate tree, measurementSeriesByExprIterator neither
\* returns the sentinel ErrFieldExpr nor aborts: it returns an iterator
\* (possibly nil) without error, or a genuine error.
C11_NoSentinelNoAbort ==
    IterReturned => ret.err \notin {"ErrFieldExpr", "panic"}

(***************************************************************************)
(* Properties of the lookups and scans (SpecScan).                         *)
(***************************************************************************)
\* some row of the table starts with prefix kb
RowExists(kb) == \E i \in 1..Len(tbl) : HasPrefix(tbl[i], kb)
\* the cursor fails at the item a seek to kb positions on
FailsAt(kb) == TsFails(IS, TsSeek(IS, kb))
\* the outcome of a point lookup with search prefix kb
NotFoundOrWrapped(kb) ==
    /\ (~RowExists(kb) /\ ~FailsAt(kb)) => ret.err = "EOF"
    /\ FailsAt(kb) => (ret.err \notin {"nil", "EOF"} /\ ret.prefix = kb)
    /\ ret.err = "EOF" => (~RowExists(kb) /\ ~FailsAt(kb))

\* C12: getTSIDBySeriesKey and searchSeriesKey return exactly io.EOF when no
\* row has the search prefix and the cursor reports no error, and another
\* error wrapped with the search prefix when the cursor fails;
\* containsMeasurement reports a missing measurement as (false, nil) and
\* never returns io.EOF.
C12_NotFoundVersusError ==
    /\ (pc = "done" /\ ret.op = "getTSIDBySeriesKey") =>
           NotFoundOrWrapped(<<nsPrefixKeyToTSID>> \o ret.key \o <<kvSeparatorChar>>)
    /\ (pc = "done" /\ ret.op = "searchSeriesKey") =>
           NotFoundOrWrapped(<<nsPrefixTSIDToKey>> \o MarshalUint64(ret.tsid))
    /\ (pc = "done" /\ ret.op = "containsMeasurement") =>
           /\ ret.err # "EOF"
           /\ (SeriesOfMeasurement(ret.name) = {}
               /\ ~FailsAt(<<nsPrefixTagToTSIDs>> \o ret.name \o <<compositeSeparatorChar>>))
              => (~ret.ok /\ ret.err = "nil")

\* a lookup of a key that was never written returns io.EOF although the
\* storage fails further on in the table
C12_Witness ==
    /\ pc = "done" /\ ret.op = "getTSIDBySeriesKey"
    /\ tsFail # 0 /\ ret.err = "EOF"
    /\ ret.key \notin {SeriesKey(series[t]) : t \in DOMAIN series}


\* the damaged row is in the table and the cursor reads up to it
DamagedRowReadable ==
    /\ \E i \in 1..Len(tbl) : tbl[i] = CorruptRow
    /\ ~FailsAt(CorruptRow)
\* predicates whose evaluation scans all rows of cpu or of cpu, host
ScanningPreds == {TagNeq(Host, ValA), TagRegex(Host, RePrefixA)}
ScanningExprs ==
    {NilExpr} \cup ScanningPreds
    \cup {And(x, y) : x \in ScanningPreds, y \in RightPreds}
    \cup {Or(x, y) : x \in ScanningPreds, y \in RightPreds}
\* a call that ran one of the scans over the rows of cpu or of cpu, host
ScanOverHostReturned ==
    /\ pc = "done"
    /\ \/ ret.op = "slowPath" /\ ret.key = Host
       \/ ret.op = "getTSIDsByMeasurementName" /\ ret.name = Cpu
       \/ ret.op = "getSeriesCount" /\ HasPrefix(CorruptRow, ret.prefix)
       \/ ret.op = "getTSIDsByTagFilter" /\ (ret.tf.isNegative \/ ret.tf.isRegexp)
       \/ ret.op = "searchTSIDs" /\ ret.name = Cpu /\ ret.expr \in ScanningExprs
\* the returned error comes with no TSID set, list or count
NoPartialResult ==
    /\ ret.op \in {"getTSIDsByMeasurementName", "getTSIDsByTagFilter"} => ret.set.isNil
    /\ ret.op = "searchTSIDs" => ret.list = <<>>
    /\ ret.op = "getSeriesCount" => ret.count = 0

\* C13: a scan that reads a row without the tag separator in its tail
\* returns the corruption error, and the enclosing search returns that error
\* with no TSID set: never a partial result.
C13_CorruptionAborts ==
    /\ (ScanOverHostReturned /\ DamagedRowReadable) =>
           (ret.err = "corrupt" /\ NoPartialResult)
    /\ (pc = "done" /\ ret.op \in {"getTSIDsByMeasurementName", "getTSIDsByTagFilter",
                                   "searchTSIDs", "getSeriesCount"}
        /\ ret.err # "nil") => NoPartialResult

\* the regexp search over host collected the series of host = a before it
\* read the damaged row, and returned the error without them
C13_Witness ==
    /\ pc = "done" /\ ret.op = "getTSIDsByTagFilter"
    /\ ret.tf.isRegexp /\ ~ret.tf.isNegative
    /\ DamagedRowReadable
    /\ TSIDsOf(series, Cpu, Host, ValA) # {}
    /\ ret.err = "corrupt" /\ ret.set.isNil


\* the cursor fails before a scan of the rows under prefix kb can read the
\* first row behind them, so the loop of the scan ends on the failure
FailsWithin(kb) ==
    /\ tsFail # 0
    /\ tsFail <= TsSeek(IS, kb) + Cardinality({i \in 1..Len(tbl) : HasPrefix(tbl[i], kb)})
\* the prefix of the tag->TSIDs rows of cpu and tag key k
TagKeyPrefix(k) ==
    marshalTagValue(<<nsPrefixTagToTSIDs>>, marshalCompositeTagKey(<<>>, Cpu, k))

\* C14: every scan routine returns a non-nil error whenever the cursor error
\* is non-nil after its loop.
C14_CursorErrorReturned ==
    pc = "done" =>
    /\ (ret.op = "getTSIDBySeriesKey"
        /\ FailsAt(<<nsPrefixKeyToTSID>> \o ret.key \o <<kvSeparatorChar>>))
           => ret.err # "nil"
    /\ (ret.op = "slowPath" /\ FailsWithin(TagKeyPrefix(ret.key))) => ret.err # "nil"
    /\ (ret.op = "fastPath"
        /\ FailsWithin(marshalTagValue(TagKeyPrefix(ret.key), ret.value)))
           => ret.err # "nil"
    /\ (ret.op = "getSeriesCount" /\ FailsWithin(ret.prefix)) => ret.err # "nil"
    /\ (ret.op = "getTSIDsByMeasurementName"
        /\ FailsWithin(<<nsPrefixTagToTSIDs>> \o ret.name \o <<compositeSeparatorChar>>))
           => ret.err # "nil"
    /\ (ret.op = "searchTagValuesBySingleKey" /\ FailsWithin(TagKeyPrefix(ret.key)))
           => ret.err # "nil"
    /\ (ret.op = "getAllSeriesKeys" /\ FailsWithin(<<nsPrefixTSIDToKey>>))
           => ret.err # "nil"


(***************************************************************************)
(* Properties of the grouped series (SpecTagSet, SpecRef).                 *)
(***************************************************************************)
\* the four sequences of t have one length
EqualLengths(t) ==
    /\ Len(t.Filters) = Len(t.IDs)
    /\ Len(t.SeriesKeys) = Len(t.IDs)
    /\ Len(t.TagsVec) = Len(t.IDs)
\* position i of t holds the four values that were appended together
Aligned(t, i) ==
    /\ t.SeriesKeys[i] = SeriesKeyOfID(t.IDs[i])
    /\ t.Filters[i] = FilterOfID(t.IDs[i])
    /\ t.TagsVec[i] = TagsOfID(t.IDs[i])
\* how often series id is in a group with key k
CountOf(g, k, id) ==
    Cardinality({<<x, i>> \in (1..Len(g)) \X (1..MaxSeriesPerSet) :
                    g[x].key = k /\ i <= Len(g[x].IDs) /\ g[x].IDs[i] = id})
SeriesTotal(g) ==
    Cardinality({<<x, i>> \in (1..Len(g)) \X (1..MaxSeriesPerSet) : i <= Len(g[x].IDs)})

\* C15: after every Append, Swap, sort.Sort and GroupSeries.Reverse the four
\* sequences of each TagSetInfo have equal length, each position holds the
\* TSID, filter, series key and tags that were appended together, and the
\* steps other than Append leave the multiset of series of the groups as
\* it was.
C15_ParallelSequences ==
    [][/\ \A x \in 1..Len(gs') :
            /\ EqualLengths(gs'[x])
            /\ \A i \in 1..Len(gs'[x].IDs) : Aligned(gs'[x], i)
       /\ SeriesTotal(gs') = SeriesTotal(gs) =>
            \A k \in GroupKeys : \A id \in GroupedIDs :
                CountOf(gs', k, id) = CountOf(gs, k, id)]_vars

\* a group of three series whose keys are out of order and whose filters
\* differ has been sorted or reversed into a new order
C15_Witness ==
    \E x \in 1..Len(gs) :
        /\ gs[x].IDs = <<3, 2, 1>>
        /\ gs[x].SeriesKeys = <<SeriesKeyOfID(3), SeriesKeyOfID(2), SeriesKeyOfID(1)>>
        /\ gs[x].Filters = <<FilterOfID(3), FilterOfID(2), FilterOfID(1)>>


\* every reference was taken before the count first came back to zero
NoLateRef == \A h \in DOMAIN holders : ~holders[h].late
HoldersAt(S) == {h \in DOMAIN holders : holders[h].at \in S}

\* C16: when every Ref precedes the first return of the count to zero, the
\* release runs exactly once, by the Unref that brings the count to zero,
\* and the object is never in the pool while a holder has an unreleased
\* reference.
C16_ReleasedOnce ==
    NoLateRef =>
        /\ Cardinality(HoldersAt({"releasing", "putting", "released"})) <= 1
        /\ Len(setPool) <= 1
        /\ HoldersAt({"releasing", "putting", "released"}) # {} =>
               (gs[1].ref = 0 /\ HoldersAt({"held"}) = {})
        /\ setPool # <<>> => HoldersAt({"held", "releasing", "putting"}) = {}
        /\ (HoldersAt({"dropped"}) # {} /\ HoldersAt({"held", "releasing", "putting"}) = {})
               => setPool = <<1>>

\* three holders took a reference each and gave it back; the last Unref
\* released the object
C16_Witness ==
    /\ NoLateRef
    /\ Cardinality(HoldersAt({"dropped"})) = 2
    /\ Cardinality(HoldersAt({"released"})) = 1
    /\ setPool = <<1>>
    /\ gs[1].IDs = <<>>


(***************************************************************************)
(* Properties of the read cache (SpecCache).                               *)
(***************************************************************************)
CurrPages == readCache.currBuffer.pages
OldPages == readCache.oldBuffer.pages
\* the sum of the sizes of the pages of a buffer
ByteSum(hp, b) == SumSizes(hp, b.pages, DOMAIN b.pages)
\* the call the step made
Called(op) == client'.last.op = op /\ client'.calls = client.calls + 1

\* C17: AddPage of a key that is not in the current buffer adds one page and
\* its size; AddPage of a key that is there replaces the page: the page count
\* stays and the byte size changes by the difference of the sizes.  With
\* nothing in the old buffer, GetPageSize is the number of distinct keys
\* added and GetByteSize the sum of their latest sizes.  Get of the key
\* returns the latest value and size.
C17_AddPageAccounting ==
    [][Called("AddPage") =>
        LET k == client'.last.key
            size == client'.last.size
            r == Get(readCache', heap', k)
        IN /\ IF k \in DOMAIN CurrPages
              THEN /\ GetPageSize(readCache') = GetPageSize(readCache)
                   /\ GetByteSize(readCache') =
                          GetByteSize(readCache) - PageSizeOf(heap, CurrPages[k]) + size
              ELSE /\ GetPageSize(readCache') = GetPageSize(readCache) + 1
                   /\ GetByteSize(readCache') = GetByteSize(readCache) + size
           /\ DOMAIN OldPages = {} =>
                  /\ GetPageSize(readCache') = Cardinality(DOMAIN CurrPages \cup {k})
                  /\ GetByteSize(readCache') = ByteSum(heap', readCache'.currBuffer)
           /\ r.hit
           /\ PageValue(heap', r.page) = client'.last.value
           /\ PageSizeOf(heap', r.page) = size]_vars

\* one key was added with data and then with data2: one page of 11 bytes
C17_Witness ==
    /\ client.last.op = "AddPage" /\ client.last.value = data2
    /\ client.calls = 2
    /\ DOMAIN OldPages = {}
    /\ GetPageSize(readCache) = 1
    /\ GetByteSize(readCache) = Len(data2)

\* C18: Remove(path) deletes every page of that path from the current and
\* from the old buffer and no other page; the page count and the byte size
\* left are those of the pages of the other paths.
C18_RemoveByPath ==
    [][Called("Remove") =>
        LET path == client'.last.path
            keep(b) == {k \in DOMAIN b.pages : k[1] # path}
        IN /\ readCache'.currBuffer.pages = Restrict(CurrPages, keep(readCache.currBuffer))
           /\ readCache'.oldBuffer.pages = Restrict(OldPages, keep(readCache.oldBuffer))
           /\ GetPageSize(readCache') =
                  Cardinality(keep(readCache.currBuffer))
                  + Cardinality(keep(readCache.oldBuffer))
           /\ GetByteSize(readCache') =
                  SumSizes(heap, CurrPages, keep(readCache.currBuffer))
                  + SumSizes(heap, OldPages, keep(readCache.oldBuffer))
           /\ client'.last.hit = (\E k \in DOMAIN CurrPages \cup DOMAIN OldPages :
                                      k[1] = path)]_vars

\* after RefreshOldBuffer a Remove took the pages of one path out of the old
\* buffer; the page of the other path is left, with its 10 bytes
C18_Witness ==
    /\ client.last.op = "Remove" /\ client.last.hit
    /\ DOMAIN CurrPages = {}
    /\ \E k \in DOMAIN OldPages : k[1] # client.last.path
    /\ GetPageSize(readCache) = 1
    /\ GetByteSize(readCache) = Len(data)

\* what the user sees through the page it holds
HandleContent(hp, c) ==
    [value |-> PageValue(hp, c.page), size |-> PageSizeOf(hp, c.page)]

C20_PageHandle ==
    [][(client.page # 0 /\ client'.page = client.page /\ client'.calls = client.calls + 1) =>
        IF /\ client'.last.op = "AddPage"
           /\ client'.last.key \in DOMAIN CurrPages
           /\ CurrPages[client'.last.key] = client.page
        THEN HandleContent(heap', client') =
                 [value |-> client'.last.value, size |-> client'.last.size]
        ELSE HandleContent(heap', client') = HandleContent(heap, client)]_vars

\* the user got the page of a key, and the key was added again with data2:
\* the page it holds shows data2
C20_Witness ==
    /\ client.last.op = "AddPage" /\ client.calls = 3
    /\ client.page # 0
    /\ client.last.key \in DOMAIN CurrPages
    /\ CurrPages[client.last.key] = client.page
    /\ PageValue(heap, client.page) = data2

(***************************************************************************)
(* Properties of the iterator path: where the deferred filters go         *)
(* (SpecIter).                                                             *)
(***************************************************************************)
\* expr without the parentheses around it
RECURSIVE Unparen(_)
Unparen(e) == IF e.t = "paren" THEN Unparen(e.expr) ELSE e

\* e is a comparison of a field with a value, possibly in parentheses
IsFieldComparison(e) ==
    /\ Unparen(e).t = "binary"
    /\ Unparen(e).op \notin {"AND", "OR"}
    /\ Unparen(e).lhs.t # "binary" /\ Unparen(e).rhs.t # "binary"
    /\ \/ Unparen(e).lhs.t = "varref" /\ Unparen(e).lhs.typ # "tag"
       \/ /\ Unparen(e).lhs.t # "varref"
          /\ Unparen(e).rhs.t = "varref" /\ Unparen(e).rhs.typ # "tag"

\* the call that returned combined two children with op, exactly one of
\* them a field comparison
OneFieldChild(op) ==
    /\ IterReturned
    /\ ret.expr.t = "binary" /\ ret.expr.op = op
    /\ IsFieldComparison(ret.expr.lhs) # IsFieldComparison(ret.expr.rhs)
FieldChild == IF IsFieldComparison(ret.expr.lhs) THEN ret.expr.lhs ELSE ret.expr.rhs
OtherChild == IF IsFieldComparison(ret.expr.lhs) THEN ret.expr.rhs ELSE ret.expr.lhs

\* *tsids when seriesByExprIterator was entered
EntryTSIDs == IF ret.singleSeries THEN NewSet({ret.tsid}) ELSE NilSet
\* what the other child resolves to on its own, and the scans it makes
OtherResult == seriesByExprIterator(IS, ret.name, OtherChild, EntryTSIDs, ret.singleSeries)
OtherCalls ==
    seriesByExprIteratorCalls(IS, ret.name, OtherChild, EntryTSIDs, ret.singleSeries).calls
\* the other child resolved to a set of TSIDs
OtherResolved ==
    /\ containsMeasurement(IS, ret.name).ok
    /\ OtherResult.err = "nil"
    /\ OtherResult.itr.kind # "nil"

\* the expr-iterator over ids that carries the field child as its filter
DeferredField(ids) ==
    [kind |-> "expr", ids |-> ids, expr |-> Unparen(FieldChild)]
\* the two iterators in the order of their children
InOrder(kind, field, other) ==
    IF IsFieldComparison(ret.expr.lhs)
    THEN [kind |-> kind, l |-> field, r |-> other]
    ELSE [kind |-> kind, l |-> other, r |-> field]

\* the TSIDs of the series of measurement m
AllSeriesOf(m) == {t \in DOMAIN series : series[t].mst = m}

\* C21: for A AND B with exactly one field comparison whose other child
\* resolves to the set S, the result is the intersection of the other
\* child's iterator with an expr-iterator over exactly S that carries the
\* field comparison; it yields exactly S, and the call scans nothing but
\* what the other child scans.
C21_AndDefersOverOtherSide ==
    (OneFieldChild("AND") /\ OtherResolved) =>
        /\ ret.err = "nil"
        /\ ret.itr = InOrder("intersect", DeferredField(ItrIds(OtherResult.itr)),
                             OtherResult.itr)
        /\ ItrIds(ret.itr) = ItrIds(OtherResult.itr)
        /\ ret.calls = OtherCalls
        /\ (OtherChild = HostIsA /\ ~ret.singleSeries) =>
               /\ ItrIds(ret.itr) = TSIDsOf(series, ret.name, Host, ValA)
               /\ \A i \in DOMAIN ret.calls :
                      ret.calls[i].fn # "getTSIDsByMeasurementName"

\* usage > 1 AND host = 'a' returned some, not all, of the series of cpu
C21_Witness ==
    /\ IterReturned /\ ret.expr = And(FieldPred, HostIsA) /\ ~ret.singleSeries
    /\ ret.err = "nil" /\ ret.itr.kind = "intersect"
    /\ ItrIds(ret.itr) # {}
    /\ ItrIds(ret.itr) # AllSeriesOf(Cpu)

\* the set *tsids points to once it is resolved: the TSID of a single
\* series search, else all the series of the measurement
ResolvedTSIDs == IF ret.singleSeries THEN {ret.tsid} ELSE AllSeriesOf(ret.name)
\* the scan that resolves *tsids, when the other child left it unresolved
ResolvingCalls(tsids) ==
    IF tsids.isNil THEN TimeRangeCalls(ret.name) ELSE <<>>
\* *tsids as the other child leaves it
TSIDsAfterOther ==
    seriesByExprIteratorCalls(IS, ret.name, OtherChild, EntryTSIDs, ret.singleSeries).tsids

\* C22 as stated: for A OR B with exactly one field comparison whose other
\* child resolves to the set S, the field child is wrapped over S and the
\* union is formed from that expr-iterator and the other child's iterator.
C22_OrDefersOverOtherSide ==
    (OneFieldChild("OR") /\ OtherResolved /\ ret.err = "nil") =>
        ret.itr = InOrder("union", DeferredField(ItrIds(OtherResult.itr)),
                          OtherResult.itr)

\* C22, amended: for A OR B with exactly one field comparison whose other
\* child resolves to the set S, the field child is wrapped over the set
\* *tsids resolves to (all the series of the measurement, or the TSID of a
\* single series search), not over S; the result is the union of that
\* expr-iterator and the other child's iterator and yields all of *tsids.
\* The all-series scan runs unless the other child has run it; when it
\* fails, its error is returned.
C22_OrDefersOverAllSeries ==
    (OneFieldChild("OR") /\ OtherResolved) =>
        /\ ret.calls = OtherCalls \o ResolvingCalls(TSIDsAfterOther)
        /\ IF allTSIDs(IS, ret.name, TSIDsAfterOther).err # "nil"
           THEN ret.err = allTSIDs(IS, ret.name, TSIDsAfterOther).err
           ELSE /\ ret.err = "nil"
                /\ ret.itr = InOrder("union", DeferredField(ResolvedTSIDs),
                                     OtherResult.itr)
                /\ ItrIds(ret.itr) = ResolvedTSIDs

\* usage > 1 OR host = 'a' returned all the series of cpu, more than those
\* with host = 'a'
C22_Witness ==
    /\ IterReturned /\ ret.expr = Or(FieldPred, HostIsA) /\ ~ret.singleSeries
    /\ ret.err = "nil" /\ ret.itr.kind = "union"
    /\ ItrIds(ret.itr) = AllSeriesOf(Cpu)
    /\ ItrIds(ret.itr.r) # AllSeriesOf(Cpu)
    /\ ItrIds(ret.itr.r) # {}

\* the call that returned combined two field comparisons
BothFieldChildren ==
    /\ IterReturned
    /\ ret.expr.t = "binary" /\ ret.expr.op \in {"AND", "OR"}
    /\ IsFieldComparison(ret.expr.lhs) /\ IsFieldComparison(ret.expr.rhs)
    /\ containsMeasurement(IS, ret.name).ok

\* the number of times the call resolved *tsids by searchTSIDsByTimeRange
Resolutions ==
    Cardinality({i \in DOMAIN ret.calls : ret.calls[i].fn = "searchTSIDsByTimeRange"})

\* C23: when both children of an AND or OR are field comparisons, the
\* all-series set of the measurement is resolved (once; not at all when the
\* caller gave the single series), each child becomes an expr-iterator over
\* that set with its own expression, and their intersection or union is
\* returned; its IDs are the all-series set.  No query of the iterator path
\* resolves the all-series set more than once.
C23_BothFieldsOverAllSeries ==
    /\ IterReturned => Resolutions <= 1
    /\ BothFieldChildren =>
        /\ ret.calls = ResolvingCalls(EntryTSIDs)
        /\ IF allTSIDs(IS, ret.name, EntryTSIDs).err # "nil"
           THEN ret.err = allTSIDs(IS, ret.name, EntryTSIDs).err
           ELSE /\ ret.err = "nil"
                /\ ret.itr =
                     [kind |-> IF ret.expr.op = "AND" THEN "intersect" ELSE "union",
                      l |-> [kind |-> "expr", ids |-> ResolvedTSIDs,
                             expr |-> Unparen(ret.expr.lhs)],
                      r |-> [kind |-> "expr", ids |-> ResolvedTSIDs,
                             expr |-> Unparen(ret.expr.rhs)]]
                /\ ItrIds(ret.itr) = ResolvedTSIDs

\* usage > 1 AND usage > 2 returned all the series of cpu after one scan of
\* the measurement, each side with its own expression
C23_Witness ==
    /\ IterReturned /\ ret.expr = And(FieldPred, FieldGt(Usage, 2)) /\ ~ret.singleSeries
    /\ ret.err = "nil" /\ ret.itr.kind = "intersect"
    /\ ret.itr.l.expr # ret.itr.r.expr
    /\ ItrIds(ret.itr) = AllSeriesOf(Cpu) /\ AllSeriesOf(Cpu) # {}
    /\ Resolutions = 1

\* C24: a call with singleSeries = true and TSID t on a measurement that
\* exists enters no scan of a tag filter and no scan of the measurement,
\* whatever the predicate, and the IDs of the iterator it returns are among
\* {t}.
C24_SingleSeriesSkipsIndex ==
    (IterReturned /\ ret.singleSeries /\ containsMeasurement(IS, ret.name).ok) =>
        /\ ret.calls = <<>>
        /\ (ret.err = "nil" /\ ret.itr.kind # "nil") => ItrIds(ret.itr) \subseteq {ret.tsid}

\* host != 'a' was asked for the single series 1, which has tag host = a:
\* the iterator holds 1
C24_Witness ==
    /\ IterReturned /\ ret.singleSeries /\ ret.expr = TagNeq(Host, ValA)
    /\ ret.err = "nil" /\ ret.itr.kind = "set"
    /\ ItrIds(ret.itr) = {ret.tsid}
    /\ ret.tsid \in TSIDsOf(series, Cpu, Host, ValA)

(***************************************************************************)
(* Properties of the comparisons the index cannot resolve by one tag       *)
(* filter (SpecIter).                                                      *)
(***************************************************************************)
SearchByExprReturned == pc = "done" /\ ret.op = "searchTSIDs"

\* e is a comparison with a binary expression on one side
HasBinarySide(e) ==
    /\ e.t = "binary" /\ e.op \notin {"AND", "OR"}
    /\ (e.lhs.t = "binary" \/ e.rhs.t = "binary")

\* C25: a query whose whole predicate is a comparison with a binary
\* expression on one side yields every non-deleted series of the
\* measurement, through searchTSIDs as through the iterator path.
C25_NestedComparisonReturnsAll ==
    /\ (SearchByExprReturned /\ HasBinarySide(ret.expr)
          /\ containsMeasurement(IS, ret.name).ok /\ ret.err = "nil") =>
           ret.list = SortedSeq(AllSeriesOf(ret.name) \ deletedTSIDs)
    /\ (IterReturned /\ HasBinarySide(ret.expr) /\ ~ret.singleSeries
          /\ containsMeasurement(IS, ret.name).ok /\ ret.err = "nil") =>
           ItrIds(ret.itr) = AllSeriesOf(ret.name)

\* e compares two tags
IsTagVersusTag(e) ==
    /\ e.t = "binary" /\ e.op \in {"EQ", "NEQ"}
    /\ e.lhs.t = "varref" /\ e.lhs.typ = "tag"
    /\ e.rhs.t = "varref" /\ e.rhs.typ = "tag"

\* the series of measurement m that have tag k
SeriesWithTag(m, k) ==
    {t \in DOMAIN series : series[t].mst = m /\ k \in DOMAIN series[t].tags}

\* the series a comparison of the tags of e stands for
TagVersusTagSeries(m, e) ==
    IF e.op = "EQ" THEN SeriesWithTag(m, e.lhs.val) \cap SeriesWithTag(m, e.rhs.val)
    ELSE SeriesWithTag(m, e.lhs.val) \ SeriesWithTag(m, e.rhs.val)

\* C26: a comparison of two tags k1 and k2 resolves to the series with k1
\* intersected with (equality) or minus (otherwise) the series with k2,
\* through searchTSIDs as through the iterator path.
C26_TagVersusTag ==
    /\ (SearchByExprReturned /\ IsTagVersusTag(ret.expr)
          /\ containsMeasurement(IS, ret.name).ok /\ ret.err = "nil") =>
           ret.list = SortedSeq(TagVersusTagSeries(ret.name, ret.expr) \ deletedTSIDs)
    /\ (IterReturned /\ IsTagVersusTag(ret.expr) /\ ~ret.singleSeries
          /\ containsMeasurement(IS, ret.name).ok /\ ret.err = "nil") =>
           ItrIds(ret.itr) = TagVersusTagSeries(ret.name, ret.expr)


(***************************************************************************)
(* Properties of the slow scan: skips and the candidate set (SpecFilter)   *)
(***************************************************************************)
\* a slow scan with a regular expression has returned
SlowScanReturned == pc = "done" /\ ret.op = "slowScan"

\* the rows under the prefix of tf, the bytes of row i through the separator
\* of its tag value, its tag value with the separator, and its TSID list
RowsUnder(tf) == {i \in 1..Len(tbl) : HasPrefix(tbl[i], tf.prefix)}
SuffixOfRow(tf, i) ==
    SubSeq(From(tbl[i], Len(tf.prefix)), 1,
           IndexByte(From(tbl[i], Len(tf.prefix)), tagSeparatorChar) + 1)
TSIDsOfRow(tf, i) ==
    ParseTSIDs(From(tbl[i], Len(tf.prefix) + Len(SuffixOfRow(tf, i))))
RowAccepted(tf, i) == matchSuffix(tf, SuffixOfRow(tf, i)).ok

\* a scan that evaluates the matcher on every row under the prefix, one row
\* after the other
NaiveScan(tf) ==
    UNION {SeqToSet(TSIDsOfRow(tf, i)) : i \in {j \in RowsUnder(tf) : RowAccepted(tf, j)}}

\* the first row after row i that belongs to another tag value
NextValueRow(tf, i) ==
    1 + Cardinality({j \in 1..Len(tbl) :
                       j <= i \/ (j \in RowsUnder(tf)
                                  /\ SuffixOfRow(tf, j) = SuffixOfRow(tf, i))})

\* the rows after which the scan seeks: evaluated, rejected and full
SeekRows(tf, evals) ==
    {i \in evals : ~RowAccepted(tf, i)
                   /\ Len(TSIDsOfRow(tf, i)) >= MaxTSIDsPerRow \div 2}

\* C27: without a candidate set the slow scan passes to f exactly the TSIDs
\* of the rows under tf.prefix whose tag value the matcher accepts, as a scan
\* that evaluates every row does, and after a full rejected row it reads the
\* first row of the next tag value next.
C27_SkipsLoseNoRow ==
    (SlowScanReturned /\ ret.filter.isNil) =>
        /\ ret.err = "nil"
        /\ ret.tsids = NaiveScan(ret.tf)
        /\ \A n \in 1..Len(ret.visited) :
             ret.visited[n] \in SeekRows(ret.tf, ret.evals) =>
                IF NextValueRow(ret.tf, ret.visited[n]) <= Len(tbl)
                THEN /\ n < Len(ret.visited)
                     /\ ret.visited[n + 1] = NextValueRow(ret.tf, ret.visited[n])
                ELSE n = Len(ret.visited)

\* a scan found series after it had sought over a further row of a rejected
\* value, on a table that has full and non-full rows under the prefix
C27_Witness ==
    /\ SlowScanReturned /\ ret.filter.isNil
    /\ ret.tsids # {}
    /\ \E n \in 1..(Len(ret.visited) - 1) :
         /\ ret.visited[n] \in SeekRows(ret.tf, ret.evals)
         /\ ret.visited[n + 1] > ret.visited[n] + 1
         /\ RowAccepted(ret.tf, ret.visited[n + 1])
    /\ \E i \in RowsUnder(ret.tf) : Len(TSIDsOfRow(ret.tf, i)) < MaxTSIDsPerRow \div 2


\* the TSIDs the slow scan passes to f without a candidate set
PassedWithoutFilter(tf) == getTSIDsForTagFilterSlow(IS, tf, NilSet).tsids

\* C28: with a candidate set F the slow scan passes to f exactly the TSIDs it
\* passes without a candidate set that are members of F, and it evaluates
\* the matcher on no row whose TSIDs share no member with F.
C28_PushdownExact ==
    (SlowScanReturned /\ ~ret.filter.isNil) =>
        /\ ret.err = "nil"
        /\ ret.tsids = PassedWithoutFilter(ret.tf) \cap ret.filter.s
        /\ \A i \in ret.evals :
             SeqToSet(TSIDsOfRow(ret.tf, i)) \cap ret.filter.s # {}

\* a scan with a candidate set passed some series and not others that the
\* matcher accepts, and read a row of no candidate without evaluating it
C28_Witness ==
    /\ SlowScanReturned /\ ~ret.filter.isNil
    /\ ret.tsids # {}
    /\ ret.tsids # PassedWithoutFilter(ret.tf)
    /\ \E n \in 1..Len(ret.visited) :
         /\ ret.visited[n] \notin ret.evals
         /\ ret.visited[n] \in RowsUnder(ret.tf)
         /\ SeqToSet(TSIDsOfRow(ret.tf, ret.visited[n])) \cap ret.filter.s = {}


(***************************************************************************)
(* Properties of GroupSeries.Reverse (SpecTagSet)                          *)
(***************************************************************************)
\* the group at position p of after is the group at the mirrored position of
\* before
GroupsMirrored(before, after) ==
    /\ Len(after) = Len(before)
    /\ \A p \in 1..Len(before) : after[p].key = before[Len(before) + 1 - p].key

\* the elements of group a are those of group b in the opposite order, in
\* all four slices
ElementsMirrored(b, a) ==
    /\ a.IDs = ReverseSlice(b.IDs)
    /\ a.Filters = ReverseSlice(b.Filters)
    /\ a.SeriesKeys = ReverseSlice(b.SeriesKeys)
    /\ a.TagsVec = ReverseSlice(b.TagsVec)

\* C29: Reverse puts the group of input position n-1-p at output position p
\* and the element of input index m-1-i at output index i of each group, in
\* all four slices, for groups in any order and with equal keys; a second
\* Reverse restores the sequence.
C29_ReverseInLockstep ==
    [][ReverseGroups =>
         /\ GroupsMirrored(gs, gs')
         /\ \A p \in 1..Len(gs) : ElementsMirrored(gs[Len(gs) + 1 - p], gs'[p])
         /\ GroupSeriesReverse(gs') = gs]_vars


(***************************************************************************)
(* Properties of the entry points: the arguments of the row scans          *)
(* (SpecIter)                                                              *)
(***************************************************************************)
\* one of the three entry points has returned
EntryPointReturned ==
    /\ pc = "done"
    /\ ret.op \in {"searchTSIDs", "searchTagValues", "measurementSeriesByExprIterator"}

\* the calls of the entry point that entered function fn
CallsOf(fn) == {i \in 1..Len(ret.calls) : ret.calls[i].fn = fn}

\* C30: whatever the entry point and the predicate, searchTSIDsByTagFilter
\* and updateTSIDsByOrSuffixesOfTagFilter are entered with tf.isNegative =
\* false only and getTSIDsForTagFilterSlow with empty tf.orSuffixes only.
C30_NoBugPanic ==
    EntryPointReturned =>
        /\ \A i \in CallsOf("searchTSIDsByTagFilter") : ~ret.calls[i].isNegative
        /\ \A i \in CallsOf("updateTSIDsByOrSuffixesOfTagFilter") :
             ~ret.calls[i].isNegative
        /\ \A i \in CallsOf("getTSIDsForTagFilterSlow") : ret.calls[i].orSuffixes = 0

\* searchTagValues resolved a negated regular expression match: it entered
\* getTSIDsByMeasurementName and then the slow scan
C30_Witness ==
    /\ EntryPointReturned
    /\ ret.op = "searchTagValues"
    /\ ret.expr = TagNotRegex(Host, RePrefixA)
    /\ CallsOf("getTSIDsByMeasurementName") # {}
    /\ CallsOf("searchTSIDsByTagFilter") # {}
    /\ CallsOf("getTSIDsForTagFilterSlow") # {}


(***************************************************************************)
(* Properties of the measurement probe (SpecIter)                          *)
(***************************************************************************)
\* searchTSIDs or measurementSeriesByExprIterator has returned for a
\* measurement without series, and the cursor read the probed position
ReturnedForUnknownMeasurement ==
    /\ pc = "done"
    /\ ret.op \in {"searchTSIDs", "measurementSeriesByExprIterator"}
    /\ AllSeriesOf(ret.name) = {}
    /\ containsMeasurement(IS, ret.name).err = "nil"

\* C31: for a measurement that has no row in the index, searchTSIDs and
\* measurementSeriesByExprIterator return an empty result and a nil error
\* after the probe of containsMeasurement; they enter no scan and do not
\* look at the predicate.
C31_UnknownMeasurement ==
    ReturnedForUnknownMeasurement =>
        /\ ~containsMeasurement(IS, ret.name).ok
        /\ ret.err = "nil"
        /\ ret.calls = <<>>
        /\ ret.op = "searchTSIDs" => ret.list = <<>>
        /\ ret.op = "measurementSeriesByExprIterator" => ret.itr = NilItr

\* the iterator of a field comparison in parentheses, which aborts on a
\* measurement with series, was asked for a measurement without
C31_Witness ==
    /\ ReturnedForUnknownMeasurement
    /\ ret.op = "measurementSeriesByExprIterator"
    /\ ret.expr = ParenExpr(FieldPred)
    /\ AllSeriesOf(Cpu) # {}
    /\ measurementSeriesByExprIterator(IS, Cpu, ret.expr, FALSE, 0).err = "panic"


(***************************************************************************)
(* Properties of the tag value query (SpecValues)                          *)
(***************************************************************************)
\* searchTagValues has returned
TagValuesReturned == pc = "done" /\ ret.op = "searchTagValues"

\* the set the condition of the query resolves to
ConditionSet == searchTSIDsInternal(IS, ret.name, ret.expr).set.s

\* the series a value may be listed for: not deleted and, under a
\* condition, in the set of the condition
Listable ==
    {t \in AllSeriesOf(ret.name) \ deletedTSIDs :
        ret.expr.t = "nil" \/ t \in ConditionSet}

\* the values of key k that some row holds for a listable series
ListableValues(k) ==
    {v \in ValuesOf(ret.name, k) :
        \E i \in RowsOfValue(k, v) :
            SeqToSet(ParseTSIDs(From(tbl[i], Len(TagRow(Cpu, k, v, <<>>)))))
              \cap Listable # {}}

\* C32: searchTagValues returns for the tag key at each index the distinct
\* values of that key that some row holds for a TSID that is not deleted
\* and, under a condition, is in the set the condition resolves to; a
\* condition that resolves to no series gives no list at all.
C32_TagValues ==
    TagValuesReturned =>
        /\ ret.err = "nil"
        /\ IF ret.expr.t # "nil" /\ ConditionSet = {}
           THEN ret.result = <<>>
           ELSE /\ Len(ret.result) = Len(ret.tagKeys)
                /\ \A i \in 1..Len(ret.tagKeys) :
                     ret.result[i] = ListableValues(ret.tagKeys[i])

\* the values a and a1 of host were listed where a full row of a holds a
\* listable series, so that the scan sought past the rows of a
C32_Witness ==
    /\ TagValuesReturned
    /\ ret.tagKeys = <<Dc, Host>>
    /\ Len(ret.result) = 2
    /\ {ValA, ValA1} \subseteq ret.result[2]
    /\ \E i \in RowsOfValue(Host, ValA) :
         /\ Len(ParseTSIDs(From(tbl[i], Len(TagRow(Cpu, Host, ValA, <<>>)))))
              = MaxTSIDsPerRow
         /\ SeqToSet(ParseTSIDs(From(tbl[i], Len(TagRow(Cpu, Host, ValA, <<>>)))))
              \cap Listable # {}


(***************************************************************************)
(* Properties of the index path as an approximation (SpecIter)             *)
(***************************************************************************)
\* the value of tag k of series t, empty when the series has no such tag
TagValueOf(t, k) == IF k \in DOMAIN series[t].tags THEN series[t].tags[k] ELSE <<>>

\* e compares a tag with a string literal or a regular expression
IsTagComparison(e) ==
    /\ e.t = "binary" /\ e.op \in {"EQ", "NEQ", "EQREGEX", "NEQREGEX"}
    /\ e.lhs.t = "varref" /\ e.lhs.typ = "tag"
    /\ e.rhs.t \in {"string", "regex"}

\* the comparison of a tag holds for series t
TagComparisonHolds(e, t) ==
    CASE e.op = "EQ" -> TagValueOf(t, e.lhs.val) = e.rhs.val
      [] e.op = "NEQ" -> TagValueOf(t, e.lhs.val) # e.rhs.val
      [] e.op = "EQREGEX" -> ReMatch(e.rhs.val, TagValueOf(t, e.lhs.val))
      [] e.op = "NEQREGEX" -> ~ReMatch(e.rhs.val, TagValueOf(t, e.lhs.val))

\* series t satisfies e for some values of its fields: a comparison that is
\* not one of a tag may hold
RECURSIVE CanSatisfy(_, _)
CanSatisfy(e, t) ==
    CASE e.t = "nil" -> TRUE
      [] e.t = "paren" -> CanSatisfy(e.expr, t)
      [] e.t = "bool" -> e.val
      [] e.t = "binary" /\ e.op = "AND" -> CanSatisfy(e.lhs, t) /\ CanSatisfy(e.rhs, t)
      [] e.t = "binary" /\ e.op = "OR" -> CanSatisfy(e.lhs, t) \/ CanSatisfy(e.rhs, t)
      [] OTHER -> IF IsTagComparison(e) THEN TagComparisonHolds(e, t) ELSE TRUE

\* e holds a comparison of two variable references
RECURSIVE ComparesTwoRefs(_)
ComparesTwoRefs(e) ==
    CASE e.t = "paren" -> ComparesTwoRefs(e.expr)
      [] e.t = "binary" /\ e.op \in {"AND", "OR"} ->
           ComparesTwoRefs(e.lhs) \/ ComparesTwoRefs(e.rhs)
      [] e.t = "binary" -> e.lhs.t = "varref" /\ e.rhs.t = "varref"
      [] OTHER -> FALSE

\* C33: for every predicate tree without a comparison of two tags, the list
\* searchTSIDs returns holds every non-deleted series of the measurement
\* that satisfies the predicate for some field values.
C33_NeverUnderApproximates ==
    (SearchByExprReturned /\ ret.err = "nil" /\ ~ComparesTwoRefs(ret.expr)) =>
        \A t \in AllSeriesOf(ret.name) \ deletedTSIDs :
            CanSatisfy(ret.expr, t) => \E i \in 1..Len(ret.list) : ret.list[i] = t


(***************************************************************************)
(* Properties of the two paths on tag predicates (SpecIter)                *)
(***************************************************************************)
\* e is built of comparisons of a tag with a string literal or a regular
\* expression, AND, OR and parentheses only
RECURSIVE IsPureTagPredicate(_)
IsPureTagPredicate(e) ==
    CASE e.t = "paren" -> IsPureTagPredicate(e.expr)
      [] e.t = "binary" /\ e.op \in {"AND", "OR"} ->
           IsPureTagPredicate(e.lhs) /\ IsPureTagPredicate(e.rhs)
      [] OTHER -> IsTagComparison(e)

\* the iterator path has returned for a tag predicate on a measurement of
\* the index, called for all its series
TagPredicateIterated ==
    /\ IterReturned
    /\ ~ret.singleSeries
    /\ IsPureTagPredicate(ret.expr)
    /\ containsMeasurement(IS, ret.name).ok

\* C34: for a predicate built of tag comparisons only, the iterator of the
\* iterator path holds the IDs of the set searchTSIDsInternal returns on
\* the same index, and the two fail together.
C34_PathsAgreeOnTags ==
    TagPredicateIterated =>
        /\ ret.err = searchTSIDsInternal(IS, ret.name, ret.expr).err
        /\ ret.err = "nil" =>
             /\ ret.itr # NilItr
             /\ ItrIds(ret.itr) = searchTSIDsInternal(IS, ret.name, ret.expr).set.s

\* both paths resolved an OR of a negated regular expression and an AND of
\* two tags to some series and not to all
C34_Witness ==
    /\ TagPredicateIterated
    /\ ret.err = "nil"
    /\ ret.expr = Or(TagNotRegex(Host, RePrefixA),
                     ParenExpr(And(HostIsA, TagEq(Dc, ValX))))
    /\ ItrIds(ret.itr) # {}
    /\ ItrIds(ret.itr) # AllSeriesOf(ret.name)


(***************************************************************************)
(* Properties of the scans that seek ahead (SpecFilter)                    *)
(***************************************************************************)
\* a scan that may seek ahead has returned
SeekingScanReturned ==
    pc = "done" /\ ret.op \in {"slowPath", "slowScan", "tagValuesScan"}

\* the positions in s ascend strictly
StrictlyAscending(s) == \A n \in 1..(Len(s) - 1) : s[n] < s[n + 1]

\* the prefix of the rows the returned scan is over
ScannedPrefix ==
    IF ret.op = "slowScan" THEN ret.tf.prefix
    ELSE IF ret.op = "slowPath" THEN SlowFilter(ret.key, ret.value).prefix
    ELSE marshalTagValue(<<nsPrefixTagToTSIDs>>,
                         marshalCompositeTagKey(<<>>, Cpu, ret.key))

\* the bytes of row i through the separator of its tag value
KeyThroughSeparator(i) ==
    SubSeq(tbl[i], 1,
           Len(ScannedPrefix)
             + IndexByte(From(tbl[i], Len(ScannedPrefix)), tagSeparatorChar) + 1)

\* the key the returned scan seeks after it read row i
SeekKeyAfter(i) ==
    IF ret.op = "tagValuesScan"
    THEN NextTagValueKey(ScannedPrefix, RowParserInit(tbl[i]).value)
    ELSE NextValueKey(KeyThroughSeparator(i))

\* C35: a scan that seeks ahead reads no row twice and ends within as many
\* reads as the table has rows: the positions it reads ascend strictly, and
\* the key it would seek after any row it read under its prefix is
\* strictly greater than that row.
C35_CursorMovesForward ==
    SeekingScanReturned =>
        /\ StrictlyAscending(ret.visited)
        /\ Len(ret.visited) <= Len(tbl)
        /\ \A n \in 1..Len(ret.visited) :
             HasPrefix(tbl[ret.visited[n]], ScannedPrefix) =>
                 /\ LexLess(tbl[ret.visited[n]], SeekKeyAfter(ret.visited[n]))
                 /\ TsSeek(IS, SeekKeyAfter(ret.visited[n])) > ret.visited[n]

\* the scan of the tag values listed a value after a full row of it, sought
\* past a further row of the value and read the row behind it
C35_Witness ==
    /\ SeekingScanReturned
    /\ ret.op = "tagValuesScan"
    /\ ret.values # {}
    /\ \E n \in 1..(Len(ret.visited) - 1) :
         /\ ret.visited[n + 1] > ret.visited[n] + 1
         /\ HasPrefix(tbl[ret.visited[n] + 1], ScannedPrefix)


(***************************************************************************)
(* Properties of the compactor (SpecCompact)                               *)
(***************************************************************************)
\* a shard that a round of compact() may work on
Compactable(sh) == ~sh.closed /\ sh.compactionEnabled

\* C36: in each round of Compactor.compact every registered shard that is
\* not closed and has compaction enabled gets FullCompact or LevelCompact
\* invoked, whatever the state of the other registered shards
C36_RoundReachesEveryShard ==
    [][Compact =>
         \A id \in DOMAIN compWorker.sources :
            Compactable(compWorker.sources[id])
               => compWorker'.invoked[id] \in {FullCompaction, LevelCompactions}]_vars

\* the seconds from the last write of a shard to nowTime, when there are any
ElapsedSinceWrite(c, id) ==
    IF c.sources[id].lastWrite > c.nowTime THEN 0
    ELSE c.nowTime - c.sources[id].lastWrite

\* C37: compact() runs FullCompact on a shard only when at least
\* fullCompColdDuration seconds, never less than 120, have passed since its
\* last write; a shard written more recently, one written after the cached
\* timestamp included, gets LevelCompact for each level of LevelCompactRule
C37_FullCompactOnlyWhenCold ==
    [][Compact =>
         \A id \in DOMAIN compWorker.sources :
            /\ compWorker.fullCompColdDuration >= MinFullCompColdDuration
            /\ compWorker'.invoked[id] = FullCompaction
                  => ElapsedSinceWrite(compWorker, id) >= compWorker.fullCompColdDuration
            /\ (/\ compWorker'.invoked[id] # <<>>
                /\ ElapsedSinceWrite(compWorker, id) < compWorker.fullCompColdDuration)
                  => compWorker'.invoked[id] = LevelCompactions]_vars


(***************************************************************************)
(* Properties of GenerateUUID (SpecUUID)                                   *)
(***************************************************************************)
\* two calls between which fewer than the five-byte range of IDs was
\* generated
WithinIDRange(r1, r2) == r1.n - r2.n < IDModulus /\ r2.n - r1.n < IDModulus

LimitsApplied(old, cfg) ==
    \A f \in DOMAIN SpdyLimits :
        /\ cfg[f] >= SpdyLimits[f][1]
        /\ old[f] <= 0 => cfg[f] = SpdyLimits[f][2]
        /\ (0 < old[f] /\ old[f] < SpdyLimits[f][1]) => cfg[f] = SpdyLimits[f][1]
        /\ old[f] >= SpdyLimits[f][1] => cfg[f] = old[f]

\* client authentication is on only with a client certificate and a CA root
ClientAuthComplete(cfg) ==
    cfg.TLSClientAuth => (cfg.TLSClientCertificate # "" /\ cfg.TLSCARoot # "")

\* C39: FormatSpdy is idempotent and normalising: after one application every
\* numeric and duration setting is at least its minimum (a value <= 0 became
\* the default, a value below the minimum the minimum), TLSClientAuth implies
\* a non-empty TLSClientCertificate and TLSCARoot, and a second application
\* changes no field
C39_FormatSpdyIdempotent ==
    (spdyCfg # <<>> /\ spdyCfg.formats >= 1) =>
        /\ LimitsApplied(spdyCfg.previous, spdyCfg.cfg)
        /\ ClientAuthComplete(spdyCfg.cfg)
        /\ spdyCfg.formats >= 2 => spdyCfg.cfg = spdyCfg.previous


(***************************************************************************)
(* Properties of the TagSetInfo pool (SpecPool)                            *)
(***************************************************************************)
\* Len() = 0, the four slices and the group key have length 0 and ref = 0
IsEmptyTagSetInfo(t) ==
    /\ TagSetInfoLen(t) = 0
    /\ Len(t.IDs) = 0 /\ Len(t.SeriesKeys) = 0 /\ Len(t.Filters) = 0 /\ Len(t.TagsVec) = 0
    /\ Len(t.key) = 0
    /\ t.ref = 0

\* the objects in the channel and in the sync.Pool
Pooled == SeqToSet(setPool.cache) \cup setPool.pool

\* C40: every TagSetInfo handed out by NewTagSetInfo is empty, whether it is
\* freshly allocated, taken from the channel or taken from the sync.Pool,
\* because an object is in either pool only after its release has reset it;
\* put and get never block: a put finds room in the channel or goes to the
\* sync.Pool, a get finds an object or allocates one
C40_HandedOutEmpty ==
    setPool # <<>> =>
        /\ \A u \in DOMAIN holders :
              holders[u].at = "got" => IsEmptyTagSetInfo(gs[holders[u].obj])
        /\ \A i \in Pooled :
              /\ IsEmptyTagSetInfo(gs[i])
              /\ \A u \in DOMAIN holders : holders[u].obj # i
        /\ Len(setPool.cache) <= PoolCacheSize
        /\ \A i, j \in 1..Len(setPool.cache) : i # j => setPool.cache[i] # setPool.cache[j]
        /\ SeqToSet(setPool.cache) \cap setPool.pool = {}
        /\ (\E u \in DOMAIN holders : holders[u].at = "putting") => ENABLED PutPooled
        /\ (/\ \E u \in DOMAIN holders : holders[u].at = "idle"
            /\ Pooled # {} \/ Len(gs) < MaxObjects) => ENABLED NewTagSetInfo

\* one user holds an untouched object from the sync.Pool and the other one
\* from the channel, both had series when they were reset, and the put of
\* the first found the channel full
C40_Witness ==
    /\ setPool # <<>>
    /\ \E u1, u2 \in DOMAIN holders :
          /\ holders[u1].at = "got" /\ holders[u1].from = "pool"
          /\ holders[u2].at = "got" /\ holders[u2].from = "cache"
          /\ {holders[u1].obj, holders[u2].obj} \subseteq setPool.cleared
          /\ IsEmptyTagSetInfo(gs[holders[u1].obj])

============================================================================
